---- MODULE Spec2Model ----
(***************************************************************************)
(* Model of the sandboxed filesystem commands and the fuzzy matcher of     *)
(* packages/desktop/src-tauri/src/commands/files.rs.                       *)
(*                                                                         *)
(* A path is a sequence of components.  An absolute path is the sequence   *)
(* of the components below "/", so <<>> is "/" itself.  A component is a   *)
(* name, "." or "..".  The filesystem is a function from the absolute      *)
(* paths of the existing nodes to their nodes.                             *)
(***************************************************************************)
EXTENDS Integers, Sequences, FiniteSets, TLC

VARIABLES
    fs,        \* the filesystem: [existing absolute path -> node]
    settings,  \* the persisted settings document read by resolve_workspace_roots
    pc,        \* "idle", "rename" (a rename_path between its two resolutions), "done"
    call,      \* the command that ran last: its input, what it resolved, its response
    fz,        \* the fuzzy matcher's call: query, candidate and result
    sr         \* a search_files or list_directory call and what surrounds it

vars == <<fs, settings, pc, call, fz, sr>>

(***************************************************************************)
(* Bounds.                                                                 *)
(***************************************************************************)
\* Longest input path, in components.
MaxSegs == 2

\* Names of filesystem nodes; a name is reused at several levels.
Names == {"w", "o", "l", "f"}

\* Components of an input path.
Comps == Names \cup {"..", "."}

SeqsUpTo(S, n) == UNION {[1..k -> S] : k \in 0..n}

(***************************************************************************)
(* Option and Result values.                                               *)
(***************************************************************************)
None == [ok |-> FALSE, v |-> <<>>]

Some(x) == [ok |-> TRUE, v |-> x]

Ok(p) == [kind |-> "Ok", path |-> p]

Err(k) == [kind |-> k, path |-> <<>>]

\* impl From<std::io::Error> for FsCommandError: NotFound and PermissionDenied
\* keep their kind, every other io error becomes Other.
FromIoError(e) ==
    IF e \in {"NotFound", "AccessDenied"} THEN Err(e) ELSE Err("Other")

(***************************************************************************)
(* The filesystem.                                                         *)
(***************************************************************************)
Dir == [kind |-> "dir", target |-> <<>>, data |-> 0]

File(d) == [kind |-> "file", target |-> <<>>, data |-> d]

Link(t) == [kind |-> "link", target |-> t, data |-> 0]

Exists(f, p) == p \in DOMAIN f

IsDir(f, p) == p \in DOMAIN f /\ f[p].kind = "dir"

IsFile(f, p) == p \in DOMAIN f /\ f[p].kind = "file"

IsLink(f, p) == p \in DOMAIN f /\ f[p].kind = "link"

Front(s) == SubSeq(s, 1, Len(s) - 1)

Last(s) == s[Len(s)]

IsPrefix(r, p) == Len(r) <= Len(p) /\ SubSeq(p, 1, Len(r)) = r

\* The operating system's path resolution (realpath): cur is the resolved,
\* existing, non-link location so far, rest the components still to walk.  A
\* symbolic link is replaced by its (absolute) target; "." stays, ".." goes to
\* the parent ("/" is its own parent); walking below a non-directory is
\* ENOTDIR, a missing component ENOENT, too many links ELOOP.
RECURSIVE Walk(_, _, _, _)
Walk(f, cur, rest, fuel) ==
    IF rest = <<>> THEN [kind |-> "Ok", path |-> cur]
    ELSE IF ~IsDir(f, cur) THEN [kind |-> "NotADirectory", path |-> <<>>]
    ELSE LET c == Head(rest)
             r == Tail(rest)
             n == Append(cur, c)
         IN  IF c = "." THEN Walk(f, cur, r, fuel)
             ELSE IF c = ".." THEN
                 Walk(f, IF cur = <<>> THEN <<>> ELSE Front(cur), r, fuel)
             ELSE IF ~Exists(f, n) THEN [kind |-> "NotFound", path |-> <<>>]
             ELSE IF f[n].kind = "link" THEN
                 IF fuel = 0 THEN [kind |-> "FilesystemLoop", path |-> <<>>]
                 ELSE Walk(f, <<>>, f[n].target \o r, fuel - 1)
             ELSE Walk(f, n, r, fuel)

NumLinks(f) == Cardinality({p \in DOMAIN f : f[p].kind = "link"})

\* How many links one resolution may follow before it is a loop (ELOOP): more
\* than a resolution that does not loop follows.
LinkFuel(f, segs) == NumLinks(f) * NumLinks(f) * (Len(segs) + 1)

Resolve(f, segs) == Walk(f, <<>>, segs, LinkFuel(f, segs))

\* .map_err(FsCommandError::from) on what the operating system answered.
FromResolved(w) == IF w.kind = "Ok" THEN Ok(w.path) ELSE FromIoError(w.kind)

\* fs::canonicalize(path).map_err(FsCommandError::from)
canonicalize(f, segs) == FromResolved(Resolve(f, segs))

(***************************************************************************)
(* std::path: components(), parent(), starts_with(), join().               *)
(***************************************************************************)
\* Path::components of an absolute path: "." is normalised away, ".." is kept.
components(segs) == SelectSeq(segs, LAMBDA c : c # ".")

\* Path::parent: the path without its last component (lexical: a trailing
\* ".." is a component like any other); None for "/".
ParentOf(comps) == IF comps = <<>> THEN None ELSE Some(Front(comps))

parent(segs) == ParentOf(components(segs))

\* Path::starts_with compares whole components.
starts_with(p, root) == IsPrefix(components(root), components(p))

\* PathBuf::join of a relative path.
join(base, rel) == base \o rel

(***************************************************************************)
(* The operating system's file operations, as std::fs uses them.  Each     *)
(* returns [kind, fs]: the io error kind (or "Ok") and the filesystem      *)
(* after it.                                                               *)
(***************************************************************************)
Done(f) == [kind |-> "Ok", fs |-> f]

Fail(k, f) == [kind |-> k, fs |-> f]

IsDirAt(f, w) == w.kind = "Ok" /\ IsDir(f, w.path)

\* Path::is_dir: the metadata of what the path leads to, links followed.
is_dir(f, segs) == IsDirAt(f, Resolve(f, segs))

IsName(c) == c \notin {".", ".."}

AsDir(f, w) ==
    IF w.kind = "Ok" /\ ~IsDir(f, w.path) THEN [kind |-> "NotADirectory", path |-> <<>>]
    ELSE w

\* The directory an operation on the last component of segs works in.
DirOf(f, segs) == AsDir(f, Resolve(f, Front(segs)))

Put(f, p, node) == [q \in DOMAIN f \cup {p} |-> IF q = p THEN node ELSE f[q]]

Without(f, gone) == [q \in DOMAIN f \ gone |-> f[q]]

Subtree(f, p) == {q \in DOMAIN f : IsPrefix(p, q)}

MkdirIn(f, d, c) ==
    IF d.kind # "Ok" THEN Fail(d.kind, f)
    ELSE IF ~IsName(c) \/ Exists(f, Append(d.path, c)) THEN Fail("AlreadyExists", f)
    ELSE Done(Put(f, Append(d.path, c), Dir))

\* mkdir(2): creates one directory; the last component is not followed.
mkdir(f, segs) ==
    IF segs = <<>> THEN Fail("AlreadyExists", f)
    ELSE MkdirIn(f, DirOf(f, segs), Last(segs))

\* The second mkdir of create_dir_all, after the parent was created.
MkdirAgain(f, segs, m2) ==
    IF m2.kind = "Ok" THEN m2
    ELSE IF is_dir(f, segs) THEN Done(f)
    ELSE m2

AfterParent(segs, r) ==
    IF r.kind # "Ok" THEN r ELSE MkdirAgain(r.fs, segs, mkdir(r.fs, segs))

\* std::fs::create_dir_all (DirBuilder::create_dir_all): mkdir; on NotFound
\* create the parent first and mkdir again; any other error is forgiven when
\* the path is a directory already.
RECURSIVE create_dir_all(_, _)
AfterMkdir(f, segs, m, up) ==
    IF m.kind = "Ok" THEN m
    ELSE IF m.kind = "NotFound" THEN
        IF ~up.ok THEN Fail("Other", f)
        ELSE AfterParent(segs, create_dir_all(f, up.v))
    ELSE IF is_dir(f, segs) THEN Done(f)
    ELSE m

create_dir_all(f, segs) == AfterMkdir(f, segs, mkdir(f, segs), parent(segs))

\* std::fs::write: open(O_WRONLY | O_CREAT | O_TRUNC), which follows a symbolic
\* link in the last component (and creates the target of a dangling one), then
\* write the data.
RECURSIVE write(_, _, _, _)
WriteIn(f, d, c, n, data, fuel) ==
    IF d.kind # "Ok" THEN Fail(d.kind, f)
    ELSE IF ~IsName(c) THEN Fail("IsADirectory", f)
    ELSE IF ~Exists(f, n) THEN Done(Put(f, n, File(data)))
    ELSE IF f[n].kind = "dir" THEN Fail("IsADirectory", f)
    ELSE IF f[n].kind = "file" THEN Done(Put(f, n, File(data)))
    ELSE IF fuel = 0 THEN Fail("FilesystemLoop", f)
    ELSE write(f, f[n].target, data, fuel - 1)

WriteAt(f, d, c, data, fuel) == WriteIn(f, d, c, Append(d.path, c), data, fuel)

write(f, segs, data, fuel) ==
    IF segs = <<>> THEN Fail("IsADirectory", f)
    ELSE WriteAt(f, DirOf(f, segs), Last(segs), data, fuel)

\* The filesystem with the subtree at old moved to n (what was at n is gone).
Moved(f, old, n) ==
    [q \in (DOMAIN f \ (Subtree(f, old) \cup {n}))
           \cup {n \o SubSeq(p, Len(old) + 1, Len(p)) : p \in Subtree(f, old)} |->
        IF IsPrefix(n, q) THEN f[old \o SubSeq(q, Len(n) + 1, Len(q))] ELSE f[q]]

RenameTo(f, old, d, c, n) ==
    IF d.kind # "Ok" THEN Fail(d.kind, f)
    ELSE IF ~IsName(c) THEN Fail("ResourceBusy", f)
    ELSE IF n = old THEN Done(f)
    ELSE IF IsPrefix(old, n) THEN Fail("InvalidInput", f)
    ELSE IF IsDir(f, old) /\ Exists(f, n) /\ ~IsDir(f, n) THEN Fail("NotADirectory", f)
    ELSE IF IsDir(f, old) /\ Subtree(f, n) \ {n} # {} THEN Fail("DirectoryNotEmpty", f)
    ELSE IF ~IsDir(f, old) /\ IsDir(f, n) THEN Fail("IsADirectory", f)
    ELSE Done(Moved(f, old, n))

RenameIn(f, old, d, c) == RenameTo(f, old, d, c, Append(d.path, c))

\* rename(2): old is a resolved path; the last component of new is not
\* followed, so an existing link there is replaced and not written through.
rename(f, old, new) ==
    IF old = <<>> \/ new = <<>> THEN Fail("ResourceBusy", f)
    ELSE IF ~Exists(f, old) THEN Fail("NotFound", f)
    ELSE RenameIn(f, old, DirOf(f, new), Last(new))

\* std::fs::remove_dir_all of a resolved directory: everything below it goes
\* (links are unlinked, not followed), then the directory; "/" cannot go.
remove_dir_all(f, p) ==
    IF p = <<>> THEN Fail("ResourceBusy", Without(f, Subtree(f, p) \ {p}))
    ELSE Done(Without(f, Subtree(f, p)))

\* std::fs::remove_file of a resolved non-directory.
remove_file(f, p) ==
    IF IsDir(f, p) THEN Fail("IsADirectory", f) ELSE Done(Without(f, {p}))

(***************************************************************************)
(* Input paths.  A raw path is [form, segs]: "abs" for "/a/b", "rel" for   *)
(* "a/b" (the empty relative path is the empty or absent string), "tilde"  *)
(* for "~/a/b".                                                            *)
(***************************************************************************)
Raw(form, segs) == [form |-> form, segs |-> segs]

Forms == {"abs", "rel", "tilde"}

RawPaths == {Raw(fm, sg) : fm \in Forms, sg \in SeqsUpTo(Comps, MaxSegs)}

\* dirs::home_dir()
default_home_directory == <<"o">>

\* path_utils::expand_tilde_path: a leading "~" becomes the home directory.
expand_tilde_path(raw) ==
    IF raw.form = "tilde" THEN Raw("abs", default_home_directory \o raw.segs)
    ELSE raw

\* Path::is_absolute
is_absolute(raw) == raw.form = "abs"

\* value.trim() with .filter(|value| !value.is_empty()): no path is given as
\* None ("absent"), as a string of white space ("blank") or as "".
IsEmptyInput(raw) == raw.form \in {"absent", "blank"} \/ (raw.form = "rel" /\ raw.segs = <<>>)

(***************************************************************************)
(* Path resolution.                                                        *)
(***************************************************************************)
\* A containment test that looks at the first root only.
InFirstRoot(p, workspace_roots) ==
    workspace_roots # <<>> /\ starts_with(p, workspace_roots[1])

\* workspace_roots.iter().any(|root| path.starts_with(root))
InSomeRoot(p, workspace_roots) ==
    \E i \in 1..Len(workspace_roots) : starts_with(p, workspace_roots[i])

\* A fallback root that prefers the first workspace root.
FallbackRootFirstRoot(workspace_roots, default_root) ==
    IF workspace_roots # <<>> THEN workspace_roots[1]
    ELSE IF default_root.ok THEN default_root.v
    ELSE default_home_directory

\* default_root.or_else(|| workspace_roots.first()).unwrap_or_else(default_home_directory)
FallbackRoot(workspace_roots, default_root) ==
    IF default_root.ok THEN default_root.v
    ELSE IF workspace_roots # <<>> THEN workspace_roots[1]
    ELSE default_home_directory

\* if candidate.is_absolute() { candidate } else { fallback_root.join(candidate) }
AbsoluteOf(candidate, fallback_root) ==
    IF is_absolute(candidate) THEN candidate.segs ELSE join(fallback_root, candidate.segs)

\* The containment check on a canonicalized path.
Contained(canonicalized, workspace_roots) ==
    IF canonicalized.kind # "Ok" THEN canonicalized
    ELSE IF workspace_roots # <<>> /\ ~InSomeRoot(canonicalized.path, workspace_roots)
    THEN Err("OutsideWorkspace")
    ELSE Ok(canonicalized.path)

\* A candidate that is joined onto the root without tilde expansion.
SandboxedCandidateUnexpanded(path, fallback_root) ==
    IF IsEmptyInput(path) THEN fallback_root
    ELSE AbsoluteOf(path, fallback_root)

\* The path resolve_sandboxed_path canonicalizes.
SandboxedCandidate(path, fallback_root) ==
    IF IsEmptyInput(path) THEN fallback_root
    ELSE AbsoluteOf(expand_tilde_path(path), fallback_root)

\* A resolve_sandboxed_path whose containment test reads the path as it was
\* before canonicalization.
LexicallyContained(resolved, canonicalized, workspace_roots) ==
    IF canonicalized.kind # "Ok" THEN canonicalized
    ELSE IF workspace_roots # <<>> /\ ~InSomeRoot(resolved, workspace_roots)
    THEN Err("OutsideWorkspace")
    ELSE Ok(canonicalized.path)

ResolveUncanonicalChecked(f, resolved, workspace_roots) ==
    LexicallyContained(resolved, canonicalize(f, resolved), workspace_roots)

resolve_sandboxed_path_lexical(f, path, workspace_roots, default_root) ==
    ResolveUncanonicalChecked(f, SandboxedCandidate(path, FallbackRoot(workspace_roots, default_root)),
                              workspace_roots)

resolve_sandboxed_path(f, path, workspace_roots, default_root) ==
    Contained(canonicalize(f, SandboxedCandidate(path, FallbackRoot(workspace_roots, default_root))),
              workspace_roots)

\* A containment check of resolve_creatable_path that reads the target's own
\* string instead of its canonical parent.
ContainedParentLexical(absolute, canonical_parent, workspace_roots) ==
    IF canonical_parent.kind # "Ok" THEN canonical_parent
    ELSE IF workspace_roots # <<>> /\ ~InSomeRoot(absolute, workspace_roots)
    THEN Err("OutsideWorkspace")
    ELSE Ok(absolute)

\* The containment check of resolve_creatable_path, on the canonical parent.
ContainedParent(absolute, canonical_parent, workspace_roots) ==
    IF canonical_parent.kind # "Ok" THEN canonical_parent
    ELSE IF workspace_roots # <<>> /\ ~InSomeRoot(canonical_parent.path, workspace_roots)
    THEN Err("OutsideWorkspace")
    ELSE Ok(absolute)

CreatableAt(f, absolute, up, workspace_roots) ==
    IF ~up.ok THEN Err("NotDirectory")
    ELSE ContainedParent(absolute, canonicalize(f, up.v), workspace_roots)

CreatableFrom(f, absolute, workspace_roots) ==
    CreatableAt(f, absolute, parent(absolute), workspace_roots)

resolve_creatable_path(f, path, workspace_roots, default_root) ==
    IF IsEmptyInput(expand_tilde_path(path)) THEN Err("Other")
    ELSE CreatableFrom(f, AbsoluteOf(expand_tilde_path(path),
                                     FallbackRoot(workspace_roots, default_root)),
                       workspace_roots)

(***************************************************************************)
(* Workspace roots from the settings document.                             *)
(***************************************************************************)
Project(id, path) == [id |-> id, path |-> path]

\* fs::canonicalize(expand_tilde_path(path)) of a settings path.
CanonicalizeRaw(f, raw) ==
    IF IsEmptyInput(raw) THEN Err("NotFound")
    ELSE canonicalize(f, expand_tilde_path(raw).segs)

\* if let Ok(canonicalized) = ...: the canonical path as a list of none or one.
IfOk(c) == IF c.kind = "Ok" THEN <<c.path>> ELSE <<>>

CanonicalIfAny(f, opt) == IF opt.ok THEN IfOk(CanonicalizeRaw(f, opt.v)) ELSE <<>>

FirstOf(hits) == IF hits = <<>> THEN None ELSE Some(hits[1].path)

\* projects.iter().find_map(..): the path of the first project with the active id.
ActivePath(s) ==
    FirstOf(SelectSeq(s.projects,
                      LAMBDA e : s.activeProjectId.ok /\ e.id = s.activeProjectId.v))

\* The canonical forms of those project paths that canonicalize, in order.
RECURSIVE CanonicalProjects(_, _)
CanonicalProjects(f, projects) ==
    IF projects = <<>> THEN <<>>
    ELSE IfOk(CanonicalizeRaw(f, Head(projects).path)) \o CanonicalProjects(f, Tail(projects))

AppendNew(d, root) ==
    IF \E i \in 1..Len(d) : d[i] = root THEN d ELSE Append(d, root)

\* The first occurrence of each root, in order.
RECURSIVE Dedupe(_)
Dedupe(roots) ==
    IF roots = <<>> THEN <<>> ELSE AppendNew(Dedupe(Front(roots)), Last(roots))

\* SettingsStore::last_directory
last_directory(s) ==
    IF s.lastDirectory.ok /\ ~IsEmptyInput(s.lastDirectory.v)
    THEN Some(expand_tilde_path(s.lastDirectory.v))
    ELSE None

RootsFrom(active, projects, last, later) ==
    [roots |-> Dedupe(active \o projects \o last),
     default_root |-> IF active # <<>> THEN Some(active[1])
                      ELSE IF last # <<>> THEN Some(last[1])
                      ELSE IF later # <<>> THEN Some(later[1])
                      ELSE None]

\* resolve_workspace_roots: s is the document settings.load() returned, s2 the
\* one the later settings.last_directory() loads.
resolve_workspace_roots(f, s, s2) ==
    RootsFrom(CanonicalIfAny(f, ActivePath(s)),
              CanonicalProjects(f, s.projects),
              CanonicalIfAny(f, s.lastDirectory),
              CanonicalIfAny(f, last_directory(s2)))

(***************************************************************************)
(* User-facing messages.                                                   *)
(***************************************************************************)
Denied == {"AccessDenied", "OutsideWorkspace"}

to_list_message(e) ==
    CASE e = "NotFound" -> "Directory not found"
      [] e \in Denied -> "Access to directory denied"
      [] e = "NotDirectory" -> "Specified path is not a directory"
      [] OTHER -> "Failed to list directory"

to_create_message(e) ==
    CASE e \in Denied -> "Access to directory denied"
      [] e = "NotDirectory" -> "Parent path must be a directory"
      [] e = "NotFound" -> "Parent directory not found"
      [] OTHER -> "Failed to create directory"

to_delete_message(e) ==
    CASE e = "NotFound" -> "File or directory not found"
      [] e \in Denied -> "Access to path denied"
      [] e = "NotDirectory" -> "Specified path is not a directory"
      [] OTHER -> "Failed to delete path"

to_rename_message(e) ==
    CASE e = "NotFound" -> "Source path not found"
      [] e \in Denied -> "Access to path denied"
      [] e = "NotDirectory" -> "Parent path must be a directory"
      [] OTHER -> "Failed to rename path"

(***************************************************************************)
(* The commands.  Each command reads the settings, resolves its path and   *)
(* acts on the filesystem; call records what it did.                       *)
(***************************************************************************)
NoResult == Err("none")

NoPath == Raw("rel", <<>>)

Contents == {1}

Call(op, path, path2, ws, res, res2, response, pre) ==
    [op |-> op, path |-> path, path2 |-> path2,
     roots |-> ws.roots, default_root |-> ws.default_root,
     res |-> res, res2 |-> res2, response |-> response, pre |-> pre]

IdleCall ==
    Call("none", NoPath, NoPath, [roots |-> <<>>, default_root |-> None],
         NoResult, NoResult, "", << >>)

\* What one command does: the record of the call and the filesystem after it.
Finish(op, path, ws, res, response, after) ==
    /\ pc' = "done"
    /\ call' = Call(op, path, NoPath, ws, res, NoResult, response, fs)
    /\ fs' = after
    /\ UNCHANGED <<settings, fz, sr>>

IoMessage(op, kind) ==
    CASE kind = "Ok" -> "ok"
      [] op = "create_directory" -> to_create_message(FromIoError(kind).kind)
      [] op = "delete_path" -> to_delete_message(FromIoError(kind).kind)
      [] OTHER -> to_rename_message(FromIoError(kind).kind)

\* read_file
ReadResolved(path, ws, resolved_path) ==
    Finish("read_file", path, ws, resolved_path,
           IF resolved_path.kind # "Ok" THEN "File not found or access denied"
           ELSE IF ~IsFile(fs, resolved_path.path) THEN "Specified path is not a file"
           ELSE "ok",
           fs)

ReadWith(path, ws) ==
    IF IsEmptyInput(path)
    THEN Finish("read_file", path, ws, NoResult, "Path is required", fs)
    ELSE ReadResolved(path, ws, resolve_sandboxed_path(fs, path, ws.roots, ws.default_root))

read_file(path) ==
    /\ pc = "idle"
    /\ ReadWith(path, resolve_workspace_roots(fs, settings, settings))

\* create_directory
CreateMade(path, ws, resolved_path, made) ==
    Finish("create_directory", path, ws, resolved_path,
           IoMessage("create_directory", made.kind), made.fs)

\* A create_directory that creates first and looks at the resolution after.
CreateResolvedEager(path, ws, resolved_path) ==
    Finish("create_directory", path, ws, resolved_path,
           IF resolved_path.kind # "Ok" THEN to_create_message(resolved_path.kind) ELSE "ok",
           create_dir_all(fs, AbsoluteOf(expand_tilde_path(path),
                                         FallbackRoot(ws.roots, ws.default_root))).fs)

CreateResolved(path, ws, resolved_path) ==
    IF resolved_path.kind # "Ok"
    THEN Finish("create_directory", path, ws, resolved_path,
                to_create_message(resolved_path.kind), fs)
    ELSE CreateMade(path, ws, resolved_path, create_dir_all(fs, resolved_path.path))

CreateWith(path, ws) ==
    IF IsEmptyInput(path)
    THEN Finish("create_directory", path, ws, NoResult, "Path is required", fs)
    ELSE CreateResolved(path, ws, resolve_creatable_path(fs, path, ws.roots, ws.default_root))

create_directory(path) ==
    /\ pc = "idle"
    /\ CreateWith(path, resolve_workspace_roots(fs, settings, settings))

\* delete_path
DeleteRemoved(path, ws, resolved_path, removed) ==
    Finish("delete_path", path, ws, resolved_path,
           IoMessage("delete_path", removed.kind), removed.fs)

DeleteResolved(path, ws, resolved_path) ==
    IF resolved_path.kind # "Ok"
    THEN Finish("delete_path", path, ws, resolved_path,
                to_delete_message(resolved_path.kind), fs)
    ELSE DeleteRemoved(path, ws, resolved_path,
                       IF IsDir(fs, resolved_path.path)
                       THEN remove_dir_all(fs, resolved_path.path)
                       ELSE remove_file(fs, resolved_path.path))

DeleteWith(path, ws) ==
    IF IsEmptyInput(path)
    THEN Finish("delete_path", path, ws, NoResult, "Path is required", fs)
    ELSE DeleteResolved(path, ws, resolve_sandboxed_path(fs, path, ws.roots, ws.default_root))

delete_path(path) ==
    /\ pc = "idle"
    /\ DeleteWith(path, resolve_workspace_roots(fs, settings, settings))

\* write_file
WriteWritten(path, ws, resolved_path, written) ==
    Finish("write_file", path, ws, resolved_path,
           IF written.kind = "Ok" THEN "ok" ELSE "Failed to write file", written.fs)

WriteDirs(path, content, ws, resolved_path, dirs) ==
    IF dirs.kind # "Ok"
    THEN Finish("write_file", path, ws, resolved_path,
                "Failed to create parent directory", dirs.fs)
    ELSE WriteWritten(path, ws, resolved_path,
                      write(dirs.fs, resolved_path.path, content,
                            LinkFuel(dirs.fs, resolved_path.path)))

WriteParent(path, content, ws, resolved_path, up) ==
    WriteDirs(path, content, ws, resolved_path,
              IF up.ok THEN create_dir_all(fs, up.v) ELSE Done(fs))

WriteResolved(path, content, ws, resolved_path) ==
    IF resolved_path.kind # "Ok"
    THEN Finish("write_file", path, ws, resolved_path,
                to_create_message(resolved_path.kind), fs)
    ELSE WriteParent(path, content, ws, resolved_path, parent(resolved_path.path))

WriteWith(path, content, ws) ==
    IF IsEmptyInput(path)
    THEN Finish("write_file", path, ws, NoResult, "Path is required", fs)
    ELSE WriteResolved(path, content, ws,
                       resolve_creatable_path(fs, path, ws.roots, ws.default_root))

write_file(path, content) ==
    /\ pc = "idle"
    /\ WriteWith(path, content, resolve_workspace_roots(fs, settings, settings))

\* rename_path, up to the resolution of old_path.  The handler suspends
\* between its two resolutions; new_path is resolved in the second step, and
\* only whether it is empty is looked at before.
RenameOldResolved(old_path, ws, resolved_old) ==
    IF resolved_old.kind # "Ok"
    THEN Finish("rename_path", old_path, ws, resolved_old,
                to_rename_message(resolved_old.kind), fs)
    ELSE /\ pc' = "rename"
         /\ call' = Call("rename_path", NoPath, NoPath, ws, resolved_old, NoResult, "", fs)
         /\ UNCHANGED <<fs, settings, fz, sr>>

RenameOldWith(old_path, new_is_empty, ws) ==
    IF IsEmptyInput(old_path)
    THEN Finish("rename_path", old_path, ws, NoResult, "oldPath is required", fs)
    ELSE IF new_is_empty
    THEN Finish("rename_path", old_path, ws, NoResult, "newPath is required", fs)
    ELSE RenameOldResolved(old_path, ws,
                           resolve_sandboxed_path(fs, old_path, ws.roots, ws.default_root))

rename_path_old(old_path, new_is_empty) ==
    /\ pc = "idle"
    /\ RenameOldWith(old_path, new_is_empty, resolve_workspace_roots(fs, settings, settings))

\* rename_path, from the resolution of new_path on.
RenameFinish(new_path, resolved_new, response, after) ==
    /\ pc' = "done"
    /\ call' = [call EXCEPT !.path2 = new_path, !.res2 = resolved_new, !.response = response]
    /\ fs' = after
    /\ UNCHANGED <<settings, fz, sr>>

RenameRenamed(new_path, resolved_new, renamed) ==
    RenameFinish(new_path, resolved_new, IoMessage("rename_path", renamed.kind), renamed.fs)

RenameNewResolved(new_path, resolved_new) ==
    IF resolved_new.kind # "Ok"
    THEN RenameFinish(new_path, resolved_new, to_rename_message(resolved_new.kind), fs)
    ELSE RenameRenamed(new_path, resolved_new, rename(fs, call.res.path, resolved_new.path))

rename_path_new(new_path) ==
    /\ pc = "rename"
    /\ ~IsEmptyInput(new_path)
    /\ RenameNewResolved(new_path,
                         resolve_creatable_path(fs, new_path, call.roots, call.default_root))

(***************************************************************************)
(* Initial states: a family of filesystems and of settings documents.      *)
(***************************************************************************)
MakeFs(pairs) == [p \in {x[1] : x \in pairs} |-> (CHOOSE x \in pairs : x[1] = p)[2]]

BaseNodes == {<< <<>>, Dir >>, << <<"w">>, Dir >>, << <<"o">>, Dir >>}

InnerNodes ==
    { { << <<"w", "f">>, File(0) >>, << <<"w", "o">>, Dir >>, << <<"w", "o", "f">>, File(0) >> } }

LinkNodes ==
    { {},
      { << <<"w", "l">>, Link(<<"o">>) >> },
      { << <<"w", "l">>, Link(<<"o", "f">>) >> },
      { << <<"w", "l">>, Link(<<"w", "o">>) >> },
      { << <<"w", "l">>, Link(<<"w", "l">>) >> } }

OuterNodes == { {}, { << <<"o", "f">>, File(0) >> } }

InitFilesystems ==
    {MakeFs(BaseNodes \cup a \cup b \cup c) : a \in InnerNodes, b \in LinkNodes, c \in OuterNodes}

InitSettings ==
    { [activeProjectId |-> Some("p1"),
       projects |-> <<Project("p1", Raw("abs", <<"w">>))>>,
       lastDirectory |-> None],
      [activeProjectId |-> Some("p2"),
       projects |-> <<Project("p1", Raw("abs", <<"w">>)), Project("p2", Raw("abs", <<"w", "o">>))>>,
       lastDirectory |-> Some(Raw("abs", <<"w">>))],
      [activeProjectId |-> None, projects |-> <<>>, lastDirectory |-> None] }

IdleFz == [phase |-> "off", query |-> <<>>, candidate |-> <<>>, result |-> None]

IdleSr == [op |-> "none"]

Init ==
    /\ fs \in InitFilesystems
    /\ settings \in InitSettings
    /\ pc = "idle"
    /\ call = IdleCall
    /\ fz = IdleFz
    /\ sr = IdleSr

\* One command runs per behaviour; which one, and on which path, is free.
ReadFile == pc = "idle" /\ \E path \in RawPaths : read_file(path)

CreateDirectory == pc = "idle" /\ \E path \in RawPaths : create_directory(path)

DeletePath == pc = "idle" /\ \E path \in RawPaths : delete_path(path)

WriteFile ==
    pc = "idle" /\ \E path \in RawPaths, content \in Contents : write_file(path, content)

RenamePathOld ==
    pc = "idle" /\ \E path \in RawPaths, e \in BOOLEAN : rename_path_old(path, e)

RenamePathNew == pc = "rename" /\ \E path \in RawPaths : rename_path_new(path)

Next ==
    \/ ReadFile
    \/ CreateDirectory
    \/ DeletePath
    \/ WriteFile
    \/ RenamePathOld
    \/ RenamePathNew

Spec == Init /\ [][Next]_vars

(***************************************************************************)
(* The fuzzy matcher.  A string is a sequence of characters.                *)
(***************************************************************************)
\* Longest query and longest candidate of the enumerated inputs.
MaxQuery == 2

MaxCandidate == 3

Chars == {"a", "b", "B", "/", " ", "é"}

ButtonPath ==
    <<"s", "r", "c", "/", "c", "o", "m", "p", "o", "n", "e", "n", "t", "s", "/",
      "B", "u", "t", "t", "o", "n", ".", "t", "s", "x">>

Button == <<"b", "u", "t", "t", "o", "n">>

Sccb == <<"s", "c", "c", "b">>

\* char::to_lowercase
Lower(ch) ==
    CASE ch = "A" -> "a"
      [] ch = "B" -> "b"
      [] ch = "D" -> "d"
      [] ch = "E" -> "e"
      [] ch = "M" -> "m"
      [] ch = "R" -> "r"
      [] ch = "T" -> "t"
      [] ch = "É" -> "é"
      [] OTHER -> ch

\* str::to_lowercase
to_lowercase(s) == [i \in 1..Len(s) |-> Lower(s[i])]

\* char::len_utf8
len_utf8(ch) == IF ch \in {"é", "É"} THEN 2 ELSE 1

\* The length in bytes of the first k characters of s.
RECURSIVE ByteLen(_, _)
ByteLen(s, k) == IF k = 0 THEN 0 ELSE ByteLen(s, k - 1) + len_utf8(s[k])

\* The needle starts at character k (from 0) of the haystack.
OccursAt(hay, needle, k) ==
    /\ k + Len(needle) <= Len(hay)
    /\ \A j \in 1..Len(needle) : hay[k + j] = needle[j]

\* str::contains
contains(hay, needle) == \E k \in 0..Len(hay) : OccursAt(hay, needle, k)

FirstOccurrence(hay, needle) ==
    CHOOSE k \in 0..Len(hay) :
        OccursAt(hay, needle, k) /\ \A j \in 0..(k - 1) : ~OccursAt(hay, needle, j)

\* str::find: the byte offset of the first occurrence.
find(hay, needle) == ByteLen(hay, FirstOccurrence(hay, needle))

\* Vec::get, from 0.
get(c, i) == IF i >= 0 /\ i < Len(c) THEN Some(c[i + 1]) ELSE None

IsSeparator(prev) == prev.ok /\ prev.v \in {"/", "_", "-", ".", " "}

Max(a, b) == IF a >= b THEN a ELSE b

Min(a, b) == IF a <= b THEN a ELSE b

\* A fast-path bonus that lacks the separator case.
FastBonusStartOnly(c, idx) == IF idx = 0 THEN 20 ELSE 0

FastBonus(c, idx) ==
    IF idx = 0 THEN 20
    ELSE IF IsSeparator(get(c, Max(idx - 1, 0))) THEN 15
    ELSE 0

FastScore(c, idx) == Some(100 + FastBonus(c, idx) - Min(idx, 20) - (Len(c) \div 5))

\* A search that does not move past the previous match.
PositionFromStart(c, search_start, ch) ==
    IF \E i \in 0..(Len(c) - 1) : c[i + 1] = ch
    THEN Some(CHOOSE i \in 0..(Len(c) - 1) :
                  c[i + 1] = ch /\ \A j \in 0..(i - 1) : c[j + 1] # ch)
    ELSE None

\* c[search_start..].iter().position(..), as an index into c.
Position(c, search_start, ch) ==
    IF \E i \in search_start..(Len(c) - 1) : c[i + 1] = ch
    THEN Some(CHOOSE i \in search_start..(Len(c) - 1) :
                  c[i + 1] = ch /\ \A j \in search_start..(i - 1) : c[j + 1] # ch)
    ELSE None

BoundaryBonus(c, idx) ==
    IF idx = 0 THEN 12
    ELSE IF IsSeparator(get(c, idx - 1)) THEN 10
    ELSE 0

Gain(c, idx, gap, consecutive) ==
    10 + Max(18 - idx, 0) - Min(gap, 10) + BoundaryBonus(c, idx)
       + (IF consecutive > 0 THEN 12 ELSE 0)

RECURSIVE Subsequence(_, _, _, _, _, _)
Matched(q, c, k, score, last_index, consecutive, idx, gap) ==
    Subsequence(q, c, k + 1,
                score + Gain(c, idx, gap, IF gap = 0 THEN consecutive + 1 ELSE 0),
                idx,
                IF gap = 0 THEN consecutive + 1 ELSE 0)

Found(q, c, k, score, last_index, consecutive, at) ==
    IF ~at.ok THEN None
    ELSE Matched(q, c, k, score, last_index, consecutive, at.v, at.v - last_index - 1)

\* The loop over the query's characters, from the k-th on.
Subsequence(q, c, k, score, last_index, consecutive) ==
    IF k > Len(q) THEN Some(score + Max(24 - (Len(c) \div 3), 0))
    ELSE IF q[k] = " " THEN Subsequence(q, c, k + 1, score, last_index, consecutive)
    ELSE Found(q, c, k, score, last_index, consecutive,
               Position(c, IF last_index < 0 THEN 0 ELSE last_index + 1, q[k]))

Scored(query, q, c) ==
    IF contains(c, query) THEN FastScore(c, find(c, query))
    ELSE Subsequence(q, c, 1, 0, -1, 0)

fuzzy_match_score(query, candidate) ==
    IF query = <<>> THEN Some(0)
    ELSE Scored(query, to_lowercase(query), to_lowercase(candidate))

Queries == SeqsUpTo(Chars, MaxQuery) \cup {Button, Sccb}

Candidates == SeqsUpTo(Chars, MaxCandidate) \cup {ButtonPath}

\* The filesystem side stands still while the matcher is exercised.
InitFuzzy ==
    /\ fs = MakeFs(BaseNodes)
    /\ settings \in {s \in InitSettings : s.projects = <<>>}
    /\ pc = "idle"
    /\ call = IdleCall
    /\ sr = IdleSr
    /\ \E query \in Queries, candidate \in Candidates :
           fz = [phase |-> "in", query |-> query, candidate |-> candidate, result |-> None]

Score ==
    /\ fz.phase = "in"
    /\ fz' = [fz EXCEPT !.phase = "out",
                        !.result = fuzzy_match_score(fz.query, fz.candidate)]
    /\ UNCHANGED <<fs, settings, pc, call, sr>>

NextFuzzy == Score

SpecFuzzy == InitFuzzy /\ [][NextFuzzy]_vars

(***************************************************************************)
(* search_files and list_directory.  A name of the search trees has its    *)
(* characters by a table; the commands compare and score names by them.    *)
(***************************************************************************)
DEFAULT_FILE_SEARCH_LIMIT == 60

MAX_FILE_SEARCH_LIMIT == 400

FILE_SEARCH_MAX_CONCURRENCY == 5

FILE_SEARCH_EXCLUDED_DIRS ==
    {"node_modules", ".git", "dist", "build", ".next", ".turbo", ".cache", "coverage", "tmp", "logs"}

\* Largest max_results handed to clamp_search_limit, short of 10000.
MaxResults == 401

\* str::chars of a name; a name not listed is a single character.
CharsOf(name) ==
    CASE name = "README.md" -> <<"R", "E", "A", "D", "M", "E", ".", "m", "d">>
      [] name = "b.md" -> <<"b", ".", "m", "d">>
      [] name = "x.js" -> <<"x", ".", "j", "s">>
      [] name = ".h" -> <<".", "h">>
      [] name = ".d" -> <<".", "d">>
      [] name = "Tmp" -> <<"T", "m", "p">>
      [] name = "xb" -> <<"x", "b">>
      [] name = "xab" -> <<"x", "a", "b">>
      [] name = "\\x" -> <<"\\", "x">>
      [] name = "node_modules" -> <<"n", "o", "d", "e", "_", "m", "o", "d", "u", "l", "e", "s">>
      [] name = ".git" -> <<".", "g", "i", "t">>
      [] name = "dist" -> <<"d", "i", "s", "t">>
      [] name = "build" -> <<"b", "u", "i", "l", "d">>
      [] name = ".next" -> <<".", "n", "e", "x", "t">>
      [] name = ".turbo" -> <<".", "t", "u", "r", "b", "o">>
      [] name = ".cache" -> <<".", "c", "a", "c", "h", "e">>
      [] name = "coverage" -> <<"c", "o", "v", "e", "r", "a", "g", "e">>
      [] name = "tmp" -> <<"t", "m", "p">>
      [] name = "logs" -> <<"l", "o", "g", "s">>
      [] OTHER -> <<name>>

\* The characters of the model in the order of their code points.
CodeOrder ==
    <<" ", "-", ".", "/", "A", "B", "D", "E", "M", "R", "T", "\\", "_",
      "a", "b", "c", "d", "e", "f", "g", "h", "i", "j", "k", "l", "m", "n", "o",
      "p", "r", "s", "t", "u", "v", "w", "x", "é", "É">>

Code(ch) == CHOOSE i \in 1..Len(CodeOrder) : CodeOrder[i] = ch

\* str::cmp is Less: the order of strings by their bytes.
RECURSIVE StrLess(_, _)
StrLess(s, t) ==
    IF t = <<>> THEN FALSE
    ELSE IF s = <<>> THEN TRUE
    ELSE IF Head(s) = Head(t) THEN StrLess(Tail(s), Tail(t))
    ELSE Code(Head(s)) < Code(Head(t))

\* str::trim
RECURSIVE Trim(_)
Trim(s) ==
    IF s = <<>> THEN s
    ELSE IF Head(s) = " " THEN Trim(Tail(s))
    ELSE IF Last(s) = " " THEN Trim(Front(s))
    ELSE s

\* path.to_string_lossy().replace('\\', "/"), of a string
normalize_path(s) == [i \in 1..Len(s) |-> IF s[i] = "\\" THEN "/" ELSE s[i]]

\* A relative path as a string: its names with "/" between them.
RECURSIVE Display(_)
Display(rel) ==
    IF rel = <<>> THEN <<>>
    ELSE IF Len(rel) = 1 THEN CharsOf(rel[1])
    ELSE CharsOf(rel[1]) \o <<"/">> \o Display(Tail(rel))

\* target.strip_prefix(root), as a string
relative_path(root, target) ==
    IF IsPrefix(root, target)
    THEN normalize_path(Display(SubSeq(target, Len(root) + 1, Len(target))))
    ELSE normalize_path(<<"/">> \o Display(target))

\* value.unwrap_or(DEFAULT_FILE_SEARCH_LIMIT).clamp(1, MAX_FILE_SEARCH_LIMIT)
ClampTo(limit) == Max(1, Min(limit, MAX_FILE_SEARCH_LIMIT))

\* A clamp that lets 0 through.
clamp_search_limit_from_zero(value) ==
    Min(IF value.ok THEN value.v ELSE DEFAULT_FILE_SEARCH_LIMIT, MAX_FILE_SEARCH_LIMIT)

clamp_search_limit(value) ==
    ClampTo(IF value.ok THEN value.v ELSE DEFAULT_FILE_SEARCH_LIMIT)

IsHidden(name) == CharsOf(name)[1] = "."

\* A should_skip_directory whose exclusion list is for hidden names only.
should_skip_directory_unless_hidden(name, include_hidden) ==
    ~include_hidden /\ (IsHidden(name) \/ name \in FILE_SEARCH_EXCLUDED_DIRS)

should_skip_directory(name, include_hidden) ==
    \/ ~include_hidden /\ IsHidden(name)
    \/ \E dir \in FILE_SEARCH_EXCLUDED_DIRS :
           [i \in 1..Len(CharsOf(dir)) |-> IF len_utf8(CharsOf(dir)[i]) = 1
                                           THEN Lower(CharsOf(dir)[i]) ELSE CharsOf(dir)[i]]
             = [i \in 1..Len(CharsOf(name)) |-> IF len_utf8(CharsOf(name)[i]) = 1
                                                THEN Lower(CharsOf(name)[i]) ELSE CharsOf(name)[i]]

\* fs::read_dir with next_entry: the names in a directory, in the order the
\* system enumerates them, or an error.
ReadDirAt(f, w, dir, order, unreadable) ==
    IF w.kind # "Ok" THEN [ok |-> FALSE, v |-> w.kind]
    ELSE IF ~IsDir(f, w.path) THEN [ok |-> FALSE, v |-> "NotDirectory"]
    ELSE IF dir \in unreadable THEN [ok |-> FALSE, v |-> "AccessDenied"]
    ELSE Some(SelectSeq(order, LAMBDA n : Exists(f, Append(w.path, n))))

read_dir(f, dir, order, unreadable) == ReadDirAt(f, Resolve(f, dir), dir, order, unreadable)

\* git check-ignore -- names, run in a blocking task, and the parse of its
\* output: the trimmed non-empty lines.  The spawn or the task may fail.
\* An ignore check that drops every name when git fails.
ignored_names_closed(git, names) ==
    IF names = <<>> THEN {}
    ELSE IF git.kind # "ok" THEN {CharsOf(names[i]) : i \in 1..Len(names)}
    ELSE {Trim(git.stdout[i]) : i \in 1..Len(git.stdout)} \ {<<>>}

ignored_names(git, names) ==
    IF names = <<>> \/ git.kind # "ok" THEN {}
    ELSE {Trim(git.stdout[i]) : i \in 1..Len(git.stdout)} \ {<<>>}

\* An order that leaves the length out.
BeforeByScoreAndName(a, b) ==
    \/ a.score > b.score
    \/ a.score = b.score /\ StrLess(a.hit.relative_path, b.hit.relative_path)

\* The order of candidates.sort_by: a comes before b.
Before(a, b) ==
    \/ a.score > b.score
    \/ /\ a.score = b.score
       /\ \/ ByteLen(a.hit.relative_path, Len(a.hit.relative_path))
               < ByteLen(b.hit.relative_path, Len(b.hit.relative_path))
          \/ /\ ByteLen(a.hit.relative_path, Len(a.hit.relative_path))
                  = ByteLen(b.hit.relative_path, Len(b.hit.relative_path))
             /\ StrLess(a.hit.relative_path, b.hit.relative_path)

\* Vec::sort_by, a stable sort.
RECURSIVE Insert(_, _)
Insert(sorted, x) ==
    IF sorted = <<>> THEN <<x>>
    ELSE IF Before(x, Last(sorted)) THEN Append(Insert(Front(sorted), x), Last(sorted))
    ELSE Append(sorted, x)

RECURSIVE sort_by(_)
sort_by(c) == IF c = <<>> THEN <<>> ELSE Insert(sort_by(Front(c)), Last(c))

\* A take of one more than the limit.
TakeOneMore(c, limit) == [i \in 1..Min(Len(c), limit + 1) |-> c[i].hit]

\* into_iter().take(limit).map(|scored| scored.hit)
Take(c, limit) == [i \in 1..Min(Len(c), limit) |-> c[i].hit]

to_search_message(e) ==
    CASE e = "NotFound" -> "Directory not found"
      [] e \in Denied -> "Access to directory denied"
      [] e = "NotDirectory" -> "Specified path is not a directory"
      [] OTHER -> "Failed to search files"

FileSearchHit(path, rel) == [name |-> Last(path), path |-> path, relative_path |-> rel]

\* search_files up to its loop.
Started(in, ws, root, limit, q) ==
    [op |-> "search_files", phase |-> "loop", in |-> in,
     roots |-> ws.roots, default_root |-> ws.default_root, res |-> Ok(root),
     limit |-> limit, normalized_query |-> q, match_all |-> q = <<>>,
     include_hidden |-> in.include_hidden.ok /\ in.include_hidden.v,
     respect_gitignore |-> ~in.respect_gitignore.ok \/ in.respect_gitignore.v,
     collect_limit |-> IF q = <<>> THEN limit ELSE Max(limit * 3, 200),
     queue |-> <<root>>, visited |-> {root}, candidates |-> <<>>,
     slot |-> 0, stop |-> FALSE, reads |-> <<>>,
     files |-> <<>>, count |-> 0, response |-> "pending"]

SearchRefused(in, ws, res) ==
    [op |-> "search_files", phase |-> "done", in |-> in,
     roots |-> ws.roots, default_root |-> ws.default_root, res |-> res,
     limit |-> 0, normalized_query |-> <<>>, match_all |-> FALSE,
     include_hidden |-> FALSE, respect_gitignore |-> FALSE, collect_limit |-> 0,
     queue |-> <<>>, visited |-> {}, candidates |-> <<>>,
     slot |-> 0, stop |-> FALSE, reads |-> <<>>,
     files |-> <<>>, count |-> 0, response |-> to_search_message(res.kind)]

SearchResolved(in, ws, res) ==
    IF res.kind # "Ok" THEN SearchRefused(in, ws, res)
    ELSE Started(in, ws, res.path, clamp_search_limit(in.max_results),
                 to_lowercase(Trim(IF in.query.ok THEN in.query.v ELSE <<>>)))

SearchWith(in, ws) ==
    sr' = SearchResolved(in, ws, resolve_sandboxed_path(fs, in.directory, ws.roots, ws.default_root))
            @@ sr

search_files(in) ==
    /\ SearchWith(in, resolve_workspace_roots(fs, settings, settings))
    /\ UNCHANGED <<fs, settings, pc, call, fz>>

\* The loop over the entries goes on at the collect limit.
AfterFileNoBreak(s, candidates) == [s EXCEPT !.candidates = candidates]

AfterFile(s, candidates) ==
    [s EXCEPT !.candidates = candidates, !.stop = Len(candidates) >= s.collect_limit]

PushHit(s, hit, score) ==
    AfterFile(s, IF score.ok THEN Append(s.candidates, [hit |-> hit, score |-> score.v])
                 ELSE s.candidates)

\* A file is a candidate whether it matches or not.
VisitFileUnmatched(s, path, rel) == PushHit(s, FileSearchHit(path, rel), Some(0))

VisitFile(s, path, rel) ==
    PushHit(s, FileSearchHit(path, rel),
            IF s.match_all THEN Some(0) ELSE fuzzy_match_score(s.normalized_query, rel))

\* A directory is queued and left out of visited.
VisitDirUnrecorded(s, name, path) ==
    IF should_skip_directory(name, s.include_hidden) THEN s
    ELSE IF path \in s.visited THEN s
    ELSE [s EXCEPT !.queue = IF Len(s.candidates) < s.collect_limit THEN Append(@, path) ELSE @]

VisitDir(s, name, path) ==
    IF should_skip_directory(name, s.include_hidden) THEN s
    ELSE IF path \in s.visited THEN s
    ELSE [s EXCEPT !.visited = @ \cup {path},
                   !.queue = IF Len(s.candidates) < s.collect_limit THEN Append(@, path) ELSE @]

\* One entry of a directory.
Visit(f, s, name, path, ignored) ==
    IF ~s.include_hidden /\ IsHidden(name) THEN s
    ELSE IF s.respect_gitignore /\ CharsOf(name) \in ignored THEN s
    ELSE IF IsDir(f, path) THEN VisitDir(s, name, path)
    ELSE IF ~IsFile(f, path) THEN s
    ELSE VisitFile(s, path, relative_path(s.res.path, path))

\* for (entry, name) in all_entries
RECURSIVE Scan(_, _, _, _, _)
Scan(f, s, dir, names, ignored) ==
    IF names = <<>> \/ s.stop THEN s
    ELSE Scan(f, Visit(f, s, Head(names), Append(dir, Head(names)), ignored),
              dir, Tail(names), ignored)

PoppedTwo(s, dir, ok, ignored) ==
    [s EXCEPT !.queue = IF Len(@) > 1 THEN Tail(Tail(@)) ELSE Tail(@),
              !.slot = (@ + 1) % FILE_SEARCH_MAX_CONCURRENCY,
              !.stop = FALSE,
              !.reads = Append(@, [dir |-> dir, ok |-> ok, ignored |-> ignored])]

\* queue.pop_front() and the record of the read.
Popped(s, dir, ok, ignored) ==
    [s EXCEPT !.queue = Tail(@), !.slot = (@ + 1) % FILE_SEARCH_MAX_CONCURRENCY,
              !.stop = FALSE,
              !.reads = Append(@, [dir |-> dir, ok |-> ok, ignored |-> ignored])]

Ignored(s, names) == IF s.respect_gitignore THEN ignored_names(s.git, names) ELSE {}

ScanWith(f, s, dir, names, ignored) == Scan(f, Popped(s, dir, TRUE, ignored), dir, names, ignored)

\* A read whose error ends the search with a message.
ReadIntoFailing(f, s, dir, rd) ==
    IF ~rd.ok THEN [s EXCEPT !.phase = "done", !.response = to_search_message(FromIoError(rd.v).kind)]
    ELSE ScanWith(f, s, dir, rd.v, Ignored(s, rd.v))

ReadInto(f, s, dir, rd) ==
    IF ~rd.ok THEN Popped(s, dir, FALSE, {})
    ELSE ScanWith(f, s, dir, rd.v, Ignored(s, rd.v))

Searching == sr.op = "search_files" /\ sr.phase = "loop"

\* One pass of the for loop: a directory is taken from the queue and read.
SearchReadDir ==
    /\ Searching
    /\ sr.queue # <<>>
    /\ sr.slot > 0 \/ Len(sr.candidates) < sr.collect_limit
    /\ sr' = ReadInto(fs, sr, Head(sr.queue), read_dir(fs, Head(sr.queue), sr.order, sr.unreadable))
    /\ UNCHANGED <<fs, settings, pc, call, fz>>

\* A break that leaves the for loop for a slot of the same round.
SearchBreakSpinning ==
    /\ Searching
    /\ sr.queue = <<>>
    /\ sr.slot > 0
    /\ sr' = [sr EXCEPT !.slot = IF @ = 1 THEN 2 ELSE 1]
    /\ UNCHANGED <<fs, settings, pc, call, fz>>

\* The queue is empty within the for loop: break.
SearchBreak ==
    /\ Searching
    /\ sr.queue = <<>>
    /\ sr.slot > 0
    /\ sr' = [sr EXCEPT !.slot = 0]
    /\ UNCHANGED <<fs, settings, pc, call, fz>>

\* A sort that does not look at match_all.
SortedAlways(s) == sort_by(s.candidates)

Sorted(s) == IF s.match_all THEN s.candidates ELSE sort_by(s.candidates)

Responded(s, files) ==
    [s EXCEPT !.phase = "done", !.files = files, !.count = Len(files), !.response = "ok"]

\* The while loop ends: sort, take and respond.
SearchFinish ==
    /\ Searching
    /\ sr.slot = 0
    /\ sr.queue = <<>> \/ Len(sr.candidates) >= sr.collect_limit
    /\ sr' = Responded(sr, Take(Sorted(sr), sr.limit))
    /\ UNCHANGED <<fs, settings, pc, call, fz>>

\* clamp_search_limit on its own.
ClampSearchLimit ==
    /\ sr.op = "none"
    /\ \E value \in {None, Some(10000)} \cup {Some(n) : n \in 0..MaxResults} :
           sr' = [op |-> "clamp_search_limit", max_results |-> value,
                  limit |-> clamp_search_limit(value)] @@ sr
    /\ UNCHANGED <<fs, settings, pc, call, fz>>

\* metadata.filter(|meta| meta.is_file()).map(|meta| meta.len()) of what
\* fs::metadata found at the end of the links; the data of a file stands for
\* its length.
SizeAt(f, w) == IF w.kind = "Ok" /\ IsFile(f, w.path) THEN Some(f[w.path].data) ELSE None

\* fs::metadata(path).ok() and modified(): the time is there when the path resolves.
ModifiedAt(f, w) == w.kind = "Ok"

\* One entry of a listing; a link to a directory counts as a directory.
FileListEntry(f, name, path) ==
    [name |-> name, path |-> path,
     is_directory |-> IsDir(f, path) \/ (IsLink(f, path) /\ is_dir(f, path)),
     is_file |-> IsFile(f, path),
     is_symbolic_link |-> IsLink(f, path),
     size |-> SizeAt(f, Resolve(f, path)),
     has_modified_time |-> ModifiedAt(f, Resolve(f, path))]

\* The entries that pass ignored_names, whatever the set holds.
KeptAlways(names, ignored) == names

Kept(names, ignored) ==
    SelectSeq(names, LAMBDA n : ~(ignored # {} /\ CharsOf(n) \in ignored))

\* entry.path() is the path that was read joined with the name; the types and
\* the metadata are those of the node the system finds there.
EntriesAt(f, dir, real, kept) ==
    [i \in 1..Len(kept) |->
        [FileListEntry(f, kept[i], Append(real, kept[i])) EXCEPT !.path = Append(dir, kept[i])]]

EntriesOf(f, dir, kept) == EntriesAt(f, dir, Resolve(f, dir).path, kept)

ListResult(kind, names, ignored, entries) ==
    [kind |-> kind, names |-> names, ignored |-> ignored, entries |-> entries]

ListEntries(f, dir, names, ignored) ==
    ListResult("Ok", names, ignored, EntriesOf(f, dir, Kept(names, ignored)))

ListRead(f, dir, rd, respect, git) ==
    IF ~rd.ok THEN ListResult(FromIoError(rd.v).kind, <<>>, {}, <<>>)
    ELSE ListEntries(f, dir, rd.v, IF respect THEN ignored_names(git, rd.v) ELSE {})

\* list_directory from the metadata of the resolved path on.
ListAt(f, dir, roots, respect, env) ==
    IF ~is_dir(f, dir) THEN ListResult("NotDirectory", <<>>, {}, <<>>)
    ELSE IF roots # <<>> /\ ~InSomeRoot(dir, roots) THEN ListResult("OutsideWorkspace", <<>>, {}, <<>>)
    ELSE ListRead(f, dir, read_dir(f, dir, env.order, env.unreadable), respect, env.git)

ListResolved(f, in, roots, res, env) ==
    IF res.kind # "Ok" THEN ListResult(res.kind, <<>>, {}, <<>>)
    ELSE ListAt(f, res.path, roots, in.respect_gitignore.ok /\ in.respect_gitignore.v, env)

Listing(in, ws, res, out) ==
    [op |-> "list_directory", phase |-> "done", in |-> in,
     roots |-> ws.roots, default_root |-> ws.default_root, res |-> res,
     names |-> out.names, ignored |-> out.ignored, entries |-> out.entries,
     response |-> IF out.kind = "Ok" THEN "ok" ELSE to_list_message(out.kind)]

ListWithResolved(in, ws, res) ==
    sr' = Listing(in, ws, res, ListResolved(fs, in, ws.roots, res, sr)) @@ sr

ListWith(in, ws) ==
    ListWithResolved(in, ws, resolve_sandboxed_path(fs, in.path, ws.roots, ws.default_root))

list_directory(in) ==
    /\ ListWith(in, resolve_workspace_roots(fs, settings, settings))
    /\ UNCHANGED <<fs, settings, pc, call, fz>>

(***************************************************************************)
(* Initial states of the searches: trees under /w, settings, and what the  *)
(* system and git do.                                                      *)
(***************************************************************************)
Tree(rels) == MakeFs(BaseNodes \cup { << <<"w">> \o x[1], x[2] >> : x \in rels })

\* The tree of the worked example.
ReadmeTree ==
    Tree({ << <<"a">>, Dir >>, << <<"a", "README.md">>, File(0) >>,
           << <<"a", "node_modules">>, Dir >>, << <<"a", "node_modules", "x.js">>, File(0) >>,
           << <<"b.md">>, File(0) >> })

\* Hidden names, an excluded name in another case, a name with a backslash,
\* links to a directory and to a file, and a link that closes a cycle.
MixedTree ==
    Tree({ << <<"a">>, Dir >>, << <<"a", "a">>, Dir >>, << <<"a", "a", "x.js">>, File(0) >>,
           << <<"a", "b.md">>, File(0) >>, << <<".h">>, File(0) >>,
           << <<".d">>, Dir >>, << <<".d", "x.js">>, File(0) >>,
           << <<"Tmp">>, Dir >>, << <<"Tmp", "x.js">>, File(0) >>,
           << <<"l">>, Link(<<"w", "a">>) >>, << <<"k">>, Link(<<"w", "b.md">>) >>,
           << <<"a", "a", "l">>, Link(<<"w">>) >>, << <<"\\x">>, File(0) >>,
           << <<"b.md">>, File(0) >> })

\* More directories than one round of reads takes.
WideTree ==
    Tree({ << <<"a">>, Dir >>, << <<"a", "x.js">>, File(0) >>,
           << <<"c">>, Dir >>, << <<"c", "x.js">>, File(0) >>,
           << <<"d">>, Dir >>, << <<"d", "x.js">>, File(0) >>,
           << <<"e">>, Dir >>, << <<"e", "b.md">>, File(0) >>,
           << <<"e", "a">>, Dir >>, << <<"e", "a", "x.js">>, File(0) >>,
           << <<"x.js">>, File(0) >>, << <<"xb">>, File(0) >>, << <<"xab">>, File(0) >> })

ActiveW ==
    [activeProjectId |-> Some("p1"),
     projects |-> <<Project("p1", Raw("abs", <<"w">>))>>,
     lastDirectory |-> None]

SearchSettings ==
    { ActiveW,
      [activeProjectId |-> None,
       projects |-> <<Project("p1", Raw("abs", <<"w">>))>>,
       lastDirectory |-> Some(Raw("abs", <<"w", "a">>))],
      [activeProjectId |-> None, projects |-> <<>>, lastDirectory |-> None] }

World(f, s) == [fs |-> f, settings |-> s]

SearchWorlds ==
    {World(ReadmeTree, s) : s \in SearchSettings}
        \cup {World(t, ActiveW) : t \in {MixedTree, WideTree}}

\* The names of the trees in two orders of enumeration.
SearchOrders ==
    { <<"a", "b.md", "c", "d", "e", "k", "l", "x.js", "xab", "xb", "\\x", "README.md", "node_modules", ".h", ".d", "Tmp">>,
      <<"x.js", "node_modules", "Tmp", ".d", ".h", "b.md", "README.md", "l", "k", "e", "d", "c", "xb", "xab", "\\x", "a">> }

Git(kind, stdout) == [kind |-> kind, stdout |-> stdout]

GitOutcomes ==
    { Git("spawn error", <<>>), Git("join error", <<>>), Git("ok", <<>>),
      Git("ok", << <<"a">> >>), Git("ok", << <<" ", "b", ".", "m", "d", " ">>, <<" ">>, <<"x", ".", "j", "s">> >>) }

Surroundings(order, unreadable, git) ==
    [op |-> "none", order |-> order, unreadable |-> unreadable, git |-> git]

\* What surrounds a call: the order of enumeration, the directories that
\* cannot be read, and what git does.
SearchSurroundings ==
    {Surroundings(o, {}, g) : o \in SearchOrders, g \in GitOutcomes}
        \cup {Surroundings(o, u, Git("ok", <<>>)) :
                  o \in SearchOrders, u \in { { <<"w", "a">> }, { <<"w">> } }}

SearchDirectories ==
    { Raw("absent", <<>>), Raw("blank", <<>>), Raw("rel", <<>>), Raw("rel", <<"a">>), Raw("abs", <<"w">>),
      Raw("abs", <<"o">>), Raw("abs", <<"w", "b.md">>), Raw("tilde", <<>>) }

SearchQueries ==
    { None, Some(<<" ">>), Some(<<"r", "e", "a", "d", "m", "e">>), Some(<<"x">>),
      Some(<<" ", "M", "D">>), Some(<<".">>) }

SearchLimits == {None, Some(0), Some(2)}

Flags == {None, Some(TRUE), Some(FALSE)}

SearchInput(directory, query, max_results, include_hidden, respect_gitignore) ==
    [directory |-> directory, query |-> query, max_results |-> max_results,
     include_hidden |-> include_hidden, respect_gitignore |-> respect_gitignore]

\* Every query and limit in two directories, two queries in the others.
SearchInputs ==
    {SearchInput(d, q, m, h, g) : d \in {Raw("absent", <<>>), Raw("rel", <<"a">>)},
                                  q \in SearchQueries, m \in SearchLimits,
                                  h \in Flags, g \in Flags}
        \cup {SearchInput(d, q, None, h, g) : d \in SearchDirectories,
                                              q \in {None, Some(<<"x">>)},
                                              h \in Flags, g \in Flags}

ListInputs == [path : SearchDirectories, respect_gitignore : Flags]

InitSearch ==
    /\ \E w \in SearchWorlds : fs = w.fs /\ settings = w.settings
    /\ pc = "idle"
    /\ call = IdleCall
    /\ fz = IdleFz
    /\ sr \in SearchSurroundings

SearchFiles == sr.op = "none" /\ \E in \in SearchInputs : search_files(in)

ListDirectory == sr.op = "none" /\ \E in \in ListInputs : list_directory(in)

NextSearch ==
    \/ SearchFiles
    \/ SearchReadDir
    \/ SearchBreak
    \/ SearchFinish
    \/ ListDirectory
    \/ ClampSearchLimit

SpecSearch == InitSearch /\ [][NextSearch]_vars

\* The searches of the tree with a cycle and of the wide tree.
InitSearchFair ==
    /\ fs \in {MixedTree, WideTree}
    /\ settings = ActiveW
    /\ pc = "idle"
    /\ call = IdleCall
    /\ fz = IdleFz
    /\ sr \in {Surroundings(o, {}, Git("ok", <<>>)) : o \in SearchOrders}

\* The runtime keeps polling a call: every read of a directory returns, and
\* the step that is enabled is taken.
\* The guards of the three steps of a running search_files. Each step changes
\* sr, so a step is enabled exactly when its guard holds.
ReadDirEnabled ==
    Searching /\ sr.queue # <<>> /\ (sr.slot > 0 \/ Len(sr.candidates) < sr.collect_limit)

BreakEnabled == Searching /\ sr.queue = <<>> /\ sr.slot > 0

FinishEnabled ==
    Searching /\ sr.slot = 0 /\ (sr.queue = <<>> \/ Len(sr.candidates) >= sr.collect_limit)

\* WF_vars(A) for a step A whose enabling condition is the state predicate
\* `enabled`: A is infinitely often disabled or infinitely often taken.
\* The future of search_files is polled until it completes, and every await
\* in it (read_dir, check-ignore) returns.
SpecSearchFair ==
    /\ InitSearchFair
    /\ [][NextSearch]_vars
    /\ ([]<>~ReadDirEnabled \/ []<><<SearchReadDir>>_vars)
    /\ ([]<>~BreakEnabled \/ []<><<SearchBreak>>_vars)
    /\ ([]<>~FinishEnabled \/ []<><<SearchFinish>>_vars)

(***************************************************************************)
(* list_directory beside an actor that changes the tree: the path is       *)
(* resolved, and the metadata, the second containment test and the read    *)
(* come after it.                                                          *)
(***************************************************************************)
\* The search trees with a file in the directory /o outside the root.
RaceTrees == {Put(t, <<"o", "b.md">>, File(0)) : t \in {ReadmeTree, MixedTree, WideTree}}

InitRace ==
    /\ fs \in RaceTrees
    /\ settings = ActiveW
    /\ pc = "idle"
    /\ call = IdleCall
    /\ fz = IdleFz
    /\ sr \in SearchSurroundings

\* list_directory up to the return of resolve_sandboxed_path.
ListPending(in, ws, res) ==
    [op |-> "list_directory", phase |-> "resolved", in |-> in,
     roots |-> ws.roots, default_root |-> ws.default_root, res |-> res, replaced |-> <<>>]

ListResolveWith(in, ws) ==
    sr' = ListPending(in, ws, resolve_sandboxed_path(fs, in.path, ws.roots, ws.default_root)) @@ sr

ListResolve ==
    /\ sr.op = "none"
    /\ \E in \in ListInputs : ListResolveWith(in, resolve_workspace_roots(fs, settings, settings))
    /\ UNCHANGED <<fs, settings, pc, call, fz>>

\* rm -r p; ln -s target p
Replaced(f, p, target) == Put(Without(f, Subtree(f, p)), p, Link(target))

\* Another process replaces the resolved directory, or a directory above
\* it, with a link to /o.
Replace ==
    /\ sr.op = "list_directory"
    /\ sr.phase = "resolved"
    /\ sr.res.kind = "Ok"
    /\ sr.replaced = <<>>
    /\ \E k \in 1..Len(sr.res.path) :
           /\ fs' = Replaced(fs, SubSeq(sr.res.path, 1, k), <<"o">>)
           /\ sr' = [sr EXCEPT !.replaced = SubSeq(sr.res.path, 1, k)]
    /\ UNCHANGED <<settings, pc, call, fz>>

\* list_directory from the metadata on, on the tree as it is by now.
ListFinish ==
    /\ sr.op = "list_directory"
    /\ sr.phase = "resolved"
    /\ sr' = Listing(sr.in, [roots |-> sr.roots, default_root |-> sr.default_root], sr.res,
                     ListResolved(fs, sr.in, sr.roots, sr.res, sr)) @@ sr
    /\ UNCHANGED <<fs, settings, pc, call, fz>>

NextRace ==
    \/ ListResolve
    \/ Replace
    \/ ListFinish

SpecRace == InitRace /\ [][NextRace]_vars

(***************************************************************************)
(* Two invocations at once.  Each has the locals of its own future: queue, *)
(* visited and candidates of a search, the resolved path of a listing.     *)
(* The runtime advances one of them from one await to the next.            *)
(***************************************************************************)
PairSearchInputs ==
    {SearchInput(d, q, m, None, None) : d \in {Raw("absent", <<>>), Raw("rel", <<"a">>)},
                                        q \in {None, Some(<<"x">>)},
                                        m \in {None, Some(2)}}

PairListInputs == [path : {Raw("absent", <<>>), Raw("rel", <<"a">>)}, respect_gitignore : {None}]

InitPair ==
    /\ fs \in {MixedTree, WideTree}
    /\ settings = ActiveW
    /\ pc = "idle"
    /\ call = IdleCall
    /\ fz = IdleFz
    /\ \E o \in SearchOrders :
           sr = [op |-> "pair",
                 calls |-> [i \in 1..2 |-> Surroundings(o, {}, Git("ok", <<>>))],
                 starts |-> [i \in 1..2 |-> Surroundings(o, {}, Git("ok", <<>>))],
                 overlapped |-> FALSE]

\* A command up to its first read of the tree.
SearchBegun(s, in, ws) ==
    SearchResolved(in, ws, resolve_sandboxed_path(fs, in.directory, ws.roots, ws.default_root)) @@ s

ListBegun(s, in, ws) ==
    ListPending(in, ws, resolve_sandboxed_path(fs, in.path, ws.roots, ws.default_root)) @@ s

Begun(i, s) == sr' = [sr EXCEPT !.calls[i] = s, !.starts[i] = s]

PairBegin(i) ==
    /\ sr.calls[i].op = "none"
    /\ \/ \E in \in PairSearchInputs :
              Begun(i, SearchBegun(sr.calls[i], in, resolve_workspace_roots(fs, settings, settings)))
       \/ \E in \in PairListInputs :
              Begun(i, ListBegun(sr.calls[i], in, resolve_workspace_roots(fs, settings, settings)))
    /\ UNCHANGED <<fs, settings, pc, call, fz>>

\* search_files from one await to the next: a read of the directory at the
\* head of the queue, the break of a round, or the end of the loop.
SearchStep(f, s) ==
    IF s.queue # <<>> /\ (s.slot > 0 \/ Len(s.candidates) < s.collect_limit)
    THEN ReadInto(f, s, Head(s.queue), read_dir(f, Head(s.queue), s.order, s.unreadable))
    ELSE IF s.queue = <<>> /\ s.slot > 0 THEN [s EXCEPT !.slot = 0]
    ELSE Responded(s, Take(Sorted(s), s.limit))

\* list_directory from the resolved path to its answer.
ListStep(f, s) ==
    Listing(s.in, [roots |-> s.roots, default_root |-> s.default_root], s.res,
            ListResolved(f, s.in, s.roots, s.res, s)) @@ s

Finished(s) == s.op # "none" /\ s.phase = "done"

Running(s) == s.op # "none" /\ ~Finished(s)

Step(f, s) ==
    IF s.op = "none" \/ Finished(s) THEN s
    ELSE IF s.op = "search_files" THEN SearchStep(f, s)
    ELSE ListStep(f, s)

\* A step that takes the visited set from both invocations.
PairAdvanceSharingVisited(i) ==
    /\ Running(sr.calls[i])
    /\ sr' = [sr EXCEPT !.calls[i] =
                  IF @.op = "search_files" /\ sr.calls[3 - i].op = "search_files"
                  THEN Step(fs, [@ EXCEPT !.visited = @ \cup sr.calls[3 - i].visited])
                  ELSE Step(fs, @),
                        !.overlapped = @ \/ Running(sr.calls[3 - i])]
    /\ UNCHANGED <<fs, settings, pc, call, fz>>

\* The runtime polls invocation i: it runs to its next await. overlapped
\* records that the other invocation was between two of its awaits.
PairAdvance(i) ==
    /\ Running(sr.calls[i])
    /\ sr' = [sr EXCEPT !.calls[i] = Step(fs, @),
                        !.overlapped = @ \/ Running(sr.calls[3 - i])]
    /\ UNCHANGED <<fs, settings, pc, call, fz>>

PairBegins == \E i \in 1..2 : PairBegin(i)

PairAdvances == \E i \in 1..2 : PairAdvance(i)

NextPair ==
    \/ PairBegins
    \/ PairAdvances

SpecPair == InitPair /\ [][NextPair]_vars

(***************************************************************************)
(* resolve_workspace_roots beside a settings save.  The function loads the *)
(* settings document, and loads it again in SettingsStore::last_directory  *)
(* when the first document gave no default root; a save may fall between.  *)
(***************************************************************************)
\* The documents a save leaves in the store; "p0" is the id of no project.
SavedSettings ==
    InitSettings \cup
    { [activeProjectId |-> Some("p0"),
       projects |-> <<Project("p1", Raw("abs", <<"w">>))>>,
       lastDirectory |-> None],
      [activeProjectId |-> Some("p0"),
       projects |-> <<Project("p1", Raw("abs", <<"w">>))>>,
       lastDirectory |-> Some(Raw("abs", <<"o">>))],
      [activeProjectId |-> Some("p1"),
       projects |-> <<Project("p1", Raw("abs", <<"w">>))>>,
       lastDirectory |-> Some(Raw("tilde", <<>>))] }

InitRoots ==
    /\ fs \in InitFilesystems
    /\ settings \in SavedSettings
    /\ pc = "idle"
    /\ call = IdleCall
    /\ fz = IdleFz
    /\ sr = IdleSr

\* let settings_value = settings.load().await.ok()
RootsLoad ==
    /\ pc = "idle"
    /\ pc' = "loaded"
    /\ sr' = [op |-> "resolve_workspace_roots", value |-> settings]
    /\ UNCHANGED <<fs, settings, call, fz>>

\* Another task saves the settings document.
SettingsSave ==
    /\ pc \in {"idle", "loaded"}
    /\ \E saved \in SavedSettings : settings' = saved
    /\ UNCHANGED <<fs, pc, call, fz, sr>>

\* The rest of resolve_workspace_roots, with the document the store holds by
\* now for settings.last_directory().
RootsReturn ==
    /\ pc = "loaded"
    /\ pc' = "rooted"
    /\ sr' = sr @@ [ws |-> resolve_workspace_roots(fs, sr.value, settings)]
    /\ UNCHANGED <<fs, settings, call, fz>>

\* The command resolves a request that names no path against these roots.
ResolveNoPath ==
    /\ pc = "rooted"
    /\ pc' = "done"
    /\ sr' = sr @@ [res |-> resolve_sandboxed_path(fs, NoPath, sr.ws.roots, sr.ws.default_root)]
    /\ UNCHANGED <<fs, settings, call, fz>>

NextRoots ==
    \/ RootsLoad
    \/ SettingsSave
    \/ RootsReturn
    \/ ResolveNoPath

SpecRoots == InitRoots /\ [][NextRoots]_vars

(***************************************************************************)
(* Properties of path resolution and of the commands.                      *)
(***************************************************************************)
SandboxedOps == {"read_file", "delete_path", "rename_path"}

CreatableOps == {"create_directory", "write_file", "rename_path"}

\* The call resolved its (first) path with resolve_sandboxed_path.
SandboxedCall == call.op \in SandboxedOps /\ call.res # NoResult

\* The call resolved a target with resolve_creatable_path: which raw path, and
\* with what result.
CreatableCall ==
    \/ call.op \in {"create_directory", "write_file"} /\ call.res # NoResult
    \/ call.op = "rename_path" /\ call.res2 # NoResult

CreatableInput == IF call.op = "rename_path" THEN call.path2 ELSE call.path

CreatableResult == IF call.op = "rename_path" THEN call.res2 ELSE call.res

\* The absolute path a raw input names for a call.
Named(raw) ==
    IF raw.form = "abs" THEN raw.segs
    ELSE IF raw.form = "tilde" THEN default_home_directory \o raw.segs
    ELSE FallbackRoot(call.roots, call.default_root) \o raw.segs

Under(p) == \E i \in 1..Len(call.roots) : IsPrefix(call.roots[i], p)

Uses(raw, c) == \E i \in 1..Len(raw.segs) : raw.segs[i] = c

\* p is a canonical path of f: its components are names, every prefix of it
\* exists and is no link, and every proper prefix is a directory.
IsCanonicalIn(f, p) ==
    \A i \in 0..Len(p) :
        /\ SubSeq(p, 1, i) \in DOMAIN f
        /\ f[SubSeq(p, 1, i)].kind # "link"
        /\ i < Len(p) => f[SubSeq(p, 1, i)].kind = "dir"
        /\ i > 0 => IsName(p[i])

\* Where a path leads, whether or not all of it exists: links are followed,
\* "." and ".." are applied, and what is missing is taken by its name.
RECURSIVE Leads(_, _, _, _)
Leads(f, cur, rest, fuel) ==
    IF rest = <<>> THEN Some(cur)
    ELSE IF Head(rest) = "." THEN Leads(f, cur, Tail(rest), fuel)
    ELSE IF Head(rest) = ".." THEN
        Leads(f, IF cur = <<>> THEN <<>> ELSE Front(cur), Tail(rest), fuel)
    ELSE IF IsLink(f, Append(cur, Head(rest))) THEN
        IF fuel = 0 THEN None
        ELSE Leads(f, <<>>, f[Append(cur, Head(rest))].target \o Tail(rest), fuel - 1)
    ELSE Leads(f, Append(cur, Head(rest)), Tail(rest), fuel)

Location(f, segs) == Leads(f, <<>>, segs, LinkFuel(f, segs))

\* C1: with non-empty roots, a path resolve_sandboxed_path returns is the
\* canonical form of the input (a canonical path of the filesystem, the one
\* the input leads to) and lies in or below one of the roots.
C1_SandboxedIsCanonicalAndContained ==
    (SandboxedCall /\ call.roots # <<>> /\ call.res.kind = "Ok") =>
        /\ IsCanonicalIn(call.pre, call.res.path)
        /\ Under(call.res.path)
        /\ call.op # "rename_path" => Location(call.pre, Named(call.path)) = Some(call.res.path)

\* A read through a link that stays in the workspace.
C1_Witness ==
    /\ call.op = "read_file" /\ call.roots # <<>> /\ call.res.kind = "Ok"
    /\ Uses(call.path, "l")
    /\ call.res.path # components(Named(call.path))
    /\ call.response = "ok"

\* C2 as stated: with non-empty roots, an input that leads outside every root
\* fails with OutsideWorkspace, and one that canonicalizes under a root
\* succeeds.
C2_OutsideAlwaysOutsideWorkspace ==
    (SandboxedCall /\ call.op # "rename_path" /\ call.roots # <<>>) =>
        /\ (Location(call.pre, Named(call.path)).ok
            /\ ~Under(Location(call.pre, Named(call.path)).v))
               => call.res.kind = "OutsideWorkspace"
        /\ (Resolve(call.pre, Named(call.path)).kind = "Ok"
            /\ Under(Resolve(call.pre, Named(call.path)).path))
               => call.res.kind = "Ok"

\* C2, amended: with non-empty roots, an input that canonicalizes to a
\* location outside every root fails with OutsideWorkspace; one that cannot be
\* canonicalized fails with the kind of the io error (NotFound for a missing
\* path) and never succeeds; one that canonicalizes under a root succeeds
\* with that canonical path.
C2_ExistingOutsideIsOutsideWorkspace ==
    (SandboxedCall /\ call.op # "rename_path" /\ call.roots # <<>>) =>
        /\ (Resolve(call.pre, Named(call.path)).kind = "Ok"
            /\ ~Under(Resolve(call.pre, Named(call.path)).path))
               => call.res.kind = "OutsideWorkspace"
        /\ (Resolve(call.pre, Named(call.path)).kind = "Ok"
            /\ Under(Resolve(call.pre, Named(call.path)).path))
               => call.res = Ok(Resolve(call.pre, Named(call.path)).path)
        /\ Resolve(call.pre, Named(call.path)).kind = "NotFound"
               => call.res.kind = "NotFound"
        /\ Resolve(call.pre, Named(call.path)).kind \notin {"Ok", "NotFound"}
               => call.res.kind \in {"AccessDenied", "Other"}

\* An escape through a link inside the workspace is refused.
C2_Witness ==
    /\ call.op = "delete_path" /\ call.roots # <<>>
    /\ call.res.kind = "OutsideWorkspace"
    /\ Uses(call.path, "l")
    /\ IsPrefix(call.roots[1], Named(call.path))

\* Nothing outside the roots differs between the filesystem before the call
\* and the one after it.
OutsideUntouched ==
    \A p \in DOMAIN call.pre \cup DOMAIN fs :
        ~Under(p) => p \in DOMAIN call.pre /\ p \in DOMAIN fs /\ call.pre[p] = fs[p]

\* C3: with non-empty roots, every path resolve_creatable_path returns leads
\* to a location inside some root, so that create_directory, write_file and
\* the destination of rename_path touch nothing outside the workspace.
C3_CreatableStaysInside ==
    (CreatableCall /\ call.roots # <<>> /\ CreatableResult.kind = "Ok") =>
        /\ Location(call.pre, CreatableResult.path).ok
        /\ Under(Location(call.pre, CreatableResult.path).v)
        /\ OutsideUntouched

\* C4: resolve_creatable_path fails with OutsideWorkspace whenever the parent
\* directory of the target canonicalizes outside every root, also when the
\* target's own string starts with a root.
C4_ParentOutsideIsRefused ==
    (CreatableCall /\ call.roots # <<>> /\ components(Named(CreatableInput)) # <<>>) =>
        ((Resolve(call.pre, Front(components(Named(CreatableInput)))).kind = "Ok"
          /\ ~Under(Resolve(call.pre, Front(components(Named(CreatableInput)))).path))
             => CreatableResult.kind = "OutsideWorkspace")

\* A target that reads as inside a root and is refused for its parent.
C4_Witness ==
    /\ call.op = "create_directory" /\ call.roots # <<>>
    /\ call.res.kind = "OutsideWorkspace"
    /\ Under(Named(call.path))
    /\ Len(call.path.segs) = 2 /\ call.path.segs[1] = "l"

\* C5: when the resolution of a path of create_directory, delete_path,
\* rename_path or write_file is OutsideWorkspace, the command answers with its
\* access-denied message and the filesystem is as it was.
C5_OutsideWorkspaceAborts ==
    (call.op \in {"create_directory", "delete_path", "rename_path", "write_file"}
     /\ (call.res.kind = "OutsideWorkspace" \/ call.res2.kind = "OutsideWorkspace")) =>
        /\ fs = call.pre
        /\ call.response \in {"Access to directory denied", "Access to path denied"}

\* A rename whose source is fine and whose destination is refused.
C5_Witness ==
    /\ call.op = "rename_path" /\ pc = "done"
    /\ call.res.kind = "Ok" /\ call.res2.kind = "OutsideWorkspace"

(***************************************************************************)
(* Properties of the fuzzy matcher.                                        *)
(***************************************************************************)
ScoredPair == fz.phase = "out"

\* The string without its spaces.
RECURSIVE NonSpace(_)
NonSpace(s) ==
    IF s = <<>> THEN <<>>
    ELSE IF Head(s) = " " THEN NonSpace(Tail(s))
    ELSE <<Head(s)>> \o NonSpace(Tail(s))

\* s occurs in t in order: the first character of s is spelled by some place
\* of t, at the head of t or later, and the rest of s by places after it.
RECURSIVE IsSubsequence(_, _)
IsSubsequence(s, t) ==
    IF s = <<>> THEN TRUE
    ELSE IF t = <<>> THEN FALSE
    ELSE \/ Head(s) = Head(t) /\ IsSubsequence(Tail(s), Tail(t))
         \/ IsSubsequence(s, Tail(t))

\* C6 as stated: on "src/components/Button.tsx" the query "button" takes the
\* fast path and scores strictly higher than the query "sccb", which takes
\* the subsequence path.
C6_ButtonOutscoresSccb ==
    (ScoredPair /\ fz.query = Button /\ fz.candidate = ButtonPath) =>
        /\ contains(to_lowercase(ButtonPath), Button)
        /\ ~contains(to_lowercase(ButtonPath), Sccb)
        /\ fz.result.ok
        /\ fuzzy_match_score(Sccb, ButtonPath).ok
        /\ fz.result.v > fuzzy_match_score(Sccb, ButtonPath).v

\* C6, amended: on "src/components/Button.tsx" the query "button" takes the
\* fast path and scores 95, the query "sccb" takes the subsequence path and
\* scores 139: the fast-path score is the lower of the two.
C6_ButtonScoresBelowSccb ==
    (ScoredPair /\ fz.candidate = ButtonPath) =>
        /\ fz.query = Button =>
              /\ contains(to_lowercase(ButtonPath), Button)
              /\ fz.result = Some(95)
              /\ fz.result.v < fuzzy_match_score(Sccb, ButtonPath).v
        /\ fz.query = Sccb =>
              /\ ~contains(to_lowercase(ButtonPath), Sccb)
              /\ fz.result = Some(139)

C6_Witness == ScoredPair /\ fz.query = Button /\ fz.candidate = ButtonPath /\ fz.result.ok

ClaimedBonus(c, i) ==
    IF i = 0 THEN 20
    ELSE IF c[i] \in {"/", "_", "-", ".", " "} THEN 15
    ELSE 0

ClaimedFast(c, i) == 100 + ClaimedBonus(c, i) - Min(i, 20) - (Len(c) \div 5)

\* C8: when the candidate contains the non-empty query as a contiguous
\* substring, the score is 100 + boundary_bonus - min(i, 20) - floor(len/5),
\* i the character index of the first occurrence and len the candidate's
\* character count.  Read here for queries in lower case, as search_files
\* passes them, and with the candidate compared in lower case.
C8_FastPathFormula ==
    (ScoredPair /\ fz.query # <<>> /\ fz.query = to_lowercase(fz.query)
     /\ contains(to_lowercase(fz.candidate), fz.query)) =>
        fz.result = Some(ClaimedFast(to_lowercase(fz.candidate),
                                     FirstOccurrence(to_lowercase(fz.candidate), fz.query)))

\* The sum the subsequence formula speaks of: prev is the place of the
\* previous matched character, or -1 when there is none yet.
RECURSIVE ClaimedSum(_, _, _, _)
ClaimedTerm(c, i, prev) ==
    10 + Max(0, 18 - i) - Min(i - prev - 1, 10)
       + (IF i = 0 THEN 12 ELSE IF c[i] \in {"/", "_", "-", ".", " "} THEN 10 ELSE 0)
       + (IF prev >= 0 /\ i = prev + 1 THEN 12 ELSE 0)

ClaimedFrom(q, c, k, prev, i) == ClaimedTerm(c, i, prev) + ClaimedSum(q, c, k + 1, i)

ClaimedSum(q, c, k, prev) ==
    IF k > Len(q) THEN Max(0, 24 - (Len(c) \div 3))
    ELSE ClaimedFrom(q, c, k, prev, Position(c, prev + 1, q[k]).v)

\* C9: when the query is no contiguous substring of the candidate and
\* matches, the score is the sum over the matched non-space characters of
\* 10 + max(0, 18 - i) - min(gap, 10) + boundary bonus + (12 when i follows
\* the previous match directly), plus max(0, 24 - floor(len/3)); the first
\* matched character has no previous match and gets no consecutive bonus.
\* Read here for queries in lower case, as search_files passes them.
C9_SubsequenceFormula ==
    (ScoredPair /\ fz.result.ok /\ fz.query # <<>> /\ fz.query = to_lowercase(fz.query)
     /\ ~contains(to_lowercase(fz.candidate), to_lowercase(fz.query))) =>
        fz.result.v = ClaimedSum(NonSpace(to_lowercase(fz.query)),
                                 to_lowercase(fz.candidate), 1, -1)

\* C10: a pair matches exactly when the non-space characters of the query
\* occur in the candidate in order, compared in lower case; ("ba", "ab") is
\* no match.
C10_MatchIffSubsequence ==
    ScoredPair =>
        /\ fz.result.ok <=> IsSubsequence(NonSpace(to_lowercase(fz.query)),
                                          to_lowercase(fz.candidate))
        /\ (fz.query = <<"b", "a">> /\ fz.candidate = <<"a", "b">>) => ~fz.result.ok

\* The pair ("ba", "ab") is scored and is no match.
C10_Witness ==
    /\ ScoredPair
    /\ fz.query = <<"b", "a">> /\ fz.candidate = <<"a", "b">>
    /\ ~fz.result.ok

(***************************************************************************)
(* Properties of search_files and list_directory.                          *)
(***************************************************************************)
SearchDone == sr.op = "search_files" /\ sr.phase = "done"

SearchAnswered == SearchDone /\ sr.response = "ok"

\* The query of the call is empty or whitespace only.
EmptyQuery == ~sr.in.query.ok \/ Trim(sr.in.query.v) = <<>>

\* The score of a hit for the query of the call.
ScoreOf(hit) == fuzzy_match_score(to_lowercase(Trim(sr.in.query.v)), hit.relative_path)

\* The claimed order of two hits.
ClaimedBefore(a, b) ==
    \/ ScoreOf(a).v > ScoreOf(b).v
    \/ /\ ScoreOf(a).v = ScoreOf(b).v
       /\ \/ ByteLen(a.relative_path, Len(a.relative_path))
               < ByteLen(b.relative_path, Len(b.relative_path))
          \/ /\ ByteLen(a.relative_path, Len(a.relative_path))
                  = ByteLen(b.relative_path, Len(b.relative_path))
             /\ StrLess(a.relative_path, b.relative_path)

Returned(hit) == \E i \in 1..Len(sr.files) : sr.files[i] = hit

\* C11: with a non-empty query the files are ordered by score descending,
\* then shorter relative path, then lexicographically; every file matches the
\* query on its relative path; and the files are the first `limit` of the
\* collected candidates in that order.
C11_ScoredOrder ==
    (SearchAnswered /\ ~EmptyQuery) =>
        /\ \A i \in 1..Len(sr.files) : ScoreOf(sr.files[i]).ok
        /\ \A i, j \in 1..Len(sr.files) : i < j => ClaimedBefore(sr.files[i], sr.files[j])
        /\ Len(sr.files) = Min(Len(sr.candidates), clamp_search_limit(sr.in.max_results))
        /\ \A i \in 1..Len(sr.files) : \E k \in 1..Len(sr.candidates) : sr.candidates[k].hit = sr.files[i]
        /\ \A k \in 1..Len(sr.candidates) :
               /\ sr.candidates[k].score = ScoreOf(sr.candidates[k].hit).v
               /\ ~Returned(sr.candidates[k].hit) =>
                      \A i \in 1..Len(sr.files) : ClaimedBefore(sr.files[i], sr.candidates[k].hit)

\* A scored search returned two files of equal score and different length
\* and left a third candidate out.
C11_Witness ==
    /\ SearchAnswered /\ ~EmptyQuery
    /\ Len(sr.files) = 2 /\ Len(sr.candidates) > 2
    /\ ScoreOf(sr.files[1]).v = ScoreOf(sr.files[2]).v
    /\ Len(sr.files[1].relative_path) < Len(sr.files[2].relative_path)
    /\ StrLess(sr.files[2].relative_path, sr.files[1].relative_path)

\* The flags of the call, with their defaults.
HiddenIncluded == sr.in.include_hidden.ok /\ sr.in.include_hidden.v

GitRespected == ~sr.in.respect_gitignore.ok \/ sr.in.respect_gitignore.v

\* The trimmed non-empty lines git printed.
Printed == {Trim(sr.git.stdout[i]) : i \in 1..Len(sr.git.stdout)} \ {<<>>}

\* The names that are dropped from a directory with these names when git is
\* asked and answers, and none when it is not.
Dropped(asked, names) == IF asked /\ names # <<>> THEN Printed ELSE {}

GitAnswered == sr.git.kind = "ok"

GitAnswer(names) == Dropped(GitRespected /\ GitAnswered, names)

Excluded(name) ==
    \E dir \in FILE_SEARCH_EXCLUDED_DIRS : to_lowercase(CharsOf(dir)) = to_lowercase(CharsOf(name))

\* The names a search looks at in a directory, in the order of enumeration.
Enumerated(dir) ==
    IF IsDir(fs, dir) /\ dir \notin sr.unreadable
    THEN SelectSeq(sr.order, LAMBDA n : Exists(fs, Append(dir, n)))
    ELSE <<>>

Eligible(n, dropped) ==
    /\ HiddenIncluded \/ CharsOf(n)[1] # "."
    /\ CharsOf(n) \notin dropped

EligibleNames(asked, names) == SelectSeq(names, LAMBDA n : Eligible(n, Dropped(asked, names)))

PathsOf(dir, names) == [i \in 1..Len(names) |-> Append(dir, names[i])]

FilesIn(dir, names) == PathsOf(dir, SelectSeq(names, LAMBDA n : IsFile(fs, Append(dir, n))))

DirsIn(dir, names) ==
    PathsOf(dir, SelectSeq(names, LAMBDA n : IsDir(fs, Append(dir, n)) /\ ~Excluded(n)))

\* The eligible regular files in the order of a breadth-first traversal,
\* with git asked or not.
RECURSIVE Traversal(_, _)
Traversal(asked, queue) ==
    IF queue = <<>> THEN <<>>
    ELSE FilesIn(Head(queue), EligibleNames(asked, Enumerated(Head(queue))))
           \o Traversal(asked,
                        Tail(queue)
                          \o DirsIn(Head(queue), EligibleNames(asked, Enumerated(Head(queue)))))

BreadthFirst(queue) == Traversal(GitRespected /\ GitAnswered, queue)

FirstOfTraversal(all, limit) == SubSeq(all, 1, Min(Len(all), limit))

\* C12: with an empty or whitespace-only query the files are the first
\* `limit` eligible regular files in the order of the breadth-first
\* traversal, with no reordering.
C12_MatchAllInTraversalOrder ==
    (SearchAnswered /\ EmptyQuery) =>
        [i \in 1..Len(sr.files) |-> sr.files[i].path]
            = FirstOfTraversal(BreadthFirst(<<sr.res.path>>), clamp_search_limit(sr.in.max_results))

\* A whitespace-only query returned the first two files of the traversal and
\* left out a candidate that was found in a subdirectory.
C12_Witness ==
    /\ SearchAnswered /\ sr.in.query = Some(<<" ">>)
    /\ Len(sr.files) = 2 /\ Len(sr.candidates) > 2
    /\ Len(sr.files[2].path) < Len(sr.candidates[3].hit.path)

\* The names of the directories between the root and a path beneath it.
DirsBeneath(root, path, upto) == {path[i] : i \in (Len(root) + 1)..upto}

\* C13: whatever includeHidden and respectGitignore are, a search reads no
\* directory beneath the root that has a name of the exclusion list on its
\* way from the root, and returns no file from such a directory.
C13_ExcludedDirsNeverRead ==
    (sr.op = "search_files" /\ sr.res.kind = "Ok") =>
        /\ \A i \in 1..Len(sr.reads) :
               DirsBeneath(sr.res.path, sr.reads[i].dir, Len(sr.reads[i].dir))
                   \cap FILE_SEARCH_EXCLUDED_DIRS = {}
        /\ \A i \in 1..Len(sr.files) :
               /\ IsPrefix(sr.res.path, sr.files[i].path)
               /\ DirsBeneath(sr.res.path, sr.files[i].path, Len(sr.files[i].path) - 1)
                      \cap FILE_SEARCH_EXCLUDED_DIRS = {}

\* A search with includeHidden set and respectGitignore unset read the parent
\* of node_modules, whose file matches the query, and returned nothing.
C13_Witness ==
    /\ SearchAnswered /\ HiddenIncluded /\ ~GitRespected
    /\ sr.in.query = Some(<<"x">>)
    /\ IsFile(fs, <<"w", "a", "node_modules", "x.js">>)
    /\ \E i \in 1..Len(sr.reads) : sr.reads[i].dir = <<"w", "a">> /\ sr.reads[i].ok
    /\ sr.files = <<>>

\* The call searches the root of the worked example with the default limit,
\* every directory can be read and git ignores nothing.
ReadmeExample ==
    /\ SearchAnswered
    /\ fs = ReadmeTree
    /\ sr.res.path = <<"w">>
    /\ ~sr.in.max_results.ok
    /\ sr.unreadable = {}
    /\ GitAnswer(<<"a">>) = {}

RelativePaths == [i \in 1..Len(sr.files) |-> sr.files[i].relative_path]

ReadmePath == <<"a", "/", "R", "E", "A", "D", "M", "E", ".", "m", "d">>

\* C14: in a root that holds a/README.md, a/node_modules/x.js and b.md the
\* query "readme" has exactly the hit a/README.md, and the empty query has
\* exactly a/README.md and b.md.
C14_ReadmeExample ==
    ReadmeExample =>
        /\ sr.in.query = Some(<<"r", "e", "a", "d", "m", "e">>) => RelativePaths = <<ReadmePath>>
        /\ EmptyQuery =>
               /\ Len(sr.files) = 2
               /\ {sr.files[i].relative_path : i \in 1..Len(sr.files)}
                      = {ReadmePath, <<"b", ".", "m", "d">>}

\* The query "readme" was answered in the example with hidden names included.
C14_Witness ==
    /\ ReadmeExample /\ HiddenIncluded
    /\ sr.in.query = Some(<<"r", "e", "a", "d", "m", "e">>)
    /\ sr.count = 1

\* C15: the limit of a search is 60 when maxResults is absent, 1 for 0, 400
\* for 10000, and maxResults itself from 1 to 400.
C15_LimitClamped ==
    (sr.op = "clamp_search_limit") =>
        /\ ~sr.max_results.ok => sr.limit = 60
        /\ sr.max_results = Some(0) => sr.limit = 1
        /\ sr.max_results = Some(10000) => sr.limit = 400
        /\ (sr.max_results.ok /\ sr.max_results.v \in 1..400) => sr.limit = sr.max_results.v

\* 10000 was clamped to 400.
C15_Witness ==
    sr.op = "clamp_search_limit" /\ sr.max_results = Some(10000) /\ sr.limit = 400

\* The clamped maxResults of the call, as claimed.
ClaimedLimit ==
    IF ~sr.in.max_results.ok THEN 60
    ELSE IF sr.in.max_results.v < 1 THEN 1
    ELSE IF sr.in.max_results.v > 400 THEN 400
    ELSE sr.in.max_results.v

\* C16: in both modes the count of the response is the number of its files
\* and is at most the clamped maxResults.
C16_CountWithinLimit ==
    SearchAnswered => sr.count = Len(sr.files) /\ sr.count <= ClaimedLimit

\* A search with maxResults 0 collected more than one candidate and returned one.
C16_Witness ==
    /\ SearchAnswered
    /\ sr.in.max_results = Some(0)
    /\ Len(sr.candidates) > 1
    /\ sr.count = 1

\* C17: resolve_sandboxed_path of "~/a" is resolve_sandboxed_path of the
\* home directory followed by "/a", whatever the roots are.
C17_TildeIsHome ==
    (SandboxedCall /\ call.path.form = "tilde") =>
        call.res = resolve_sandboxed_path(call.pre,
                                          Raw("abs", default_home_directory \o call.path.segs),
                                          call.roots, call.default_root)

\* "~/f" was refused as outside the workspace although the workspace root
\* has a file f of its own.
C17_Witness ==
    /\ SandboxedCall /\ call.path = Raw("tilde", <<"f">>)
    /\ call.roots # <<>>
    /\ IsFile(call.pre, FallbackRoot(call.roots, call.default_root) \o <<"f">>)
    /\ call.res.kind = "OutsideWorkspace"

\* The path argument of the call, for the calls that resolve one.
Resolving == sr.op \in {"search_files", "list_directory"}

PathArgument == IF sr.op = "search_files" THEN sr.in.directory ELSE sr.in.path

\* The resolution of a path that is not given, or is relative, against a root.
ResolvedAgainst(root) ==
    Contained(canonicalize(fs, IF PathArgument.form = "rel" THEN root \o PathArgument.segs
                               ELSE root),
              sr.roots)

\* C18 as stated: a path that is absent, empty or blank resolves the default
\* root and a relative path is joined onto it, the default root being the
\* first workspace root, or else the provided fallback root, or else the home
\* directory.
C18_DefaultRootIsFirstRoot ==
    (Resolving /\ PathArgument.form \in {"absent", "blank", "rel"}) =>
        sr.res = ResolvedAgainst(IF sr.roots # <<>> THEN sr.roots[1]
                                 ELSE IF sr.default_root.ok THEN sr.default_root.v
                                 ELSE default_home_directory)

\* C18, amended: the default root is the provided default root when there is
\* one, or else the first workspace root, or else the home directory.
C18_DefaultRootIsProvidedFirst ==
    (Resolving /\ PathArgument.form \in {"absent", "blank", "rel"}) =>
        sr.res = ResolvedAgainst(IF sr.default_root.ok THEN sr.default_root.v
                                 ELSE IF sr.roots # <<>> THEN sr.roots[1]
                                 ELSE default_home_directory)

\* A blank path resolved the provided default root, which is not the first
\* workspace root.
C18_Witness ==
    /\ Resolving /\ PathArgument.form = "blank"
    /\ sr.roots # <<>> /\ sr.default_root.ok /\ sr.default_root.v # sr.roots[1]
    /\ sr.res = Ok(sr.default_root.v)

ListRespected == sr.in.respect_gitignore.ok /\ sr.in.respect_gitignore.v

ListedNames == [i \in 1..Len(sr.entries) |-> sr.entries[i].name]

\* The files of a search when git is asked or not: the first of the traversal
\* for an empty query, the matching files of the traversal otherwise.
SearchReturns(asked) ==
    IF EmptyQuery
    THEN [i \in 1..Len(sr.files) |-> sr.files[i].path]
           = FirstOfTraversal(Traversal(asked, <<sr.res.path>>), clamp_search_limit(sr.in.max_results))
    ELSE {sr.candidates[k].hit.path : k \in 1..Len(sr.candidates)}
           = {p \in {Traversal(asked, <<sr.res.path>>)[i] :
                         i \in 1..Len(Traversal(asked, <<sr.res.path>>))} :
                 fuzzy_match_score(to_lowercase(Trim(sr.in.query.v)),
                                   Display(SubSeq(p, Len(sr.res.path) + 1, Len(p)))).ok}

\* C19: when git cannot be run or its task fails, list_directory and
\* search_files succeed and return what they return with respectGitignore
\* false; when git answers, exactly the children whose names it printed are
\* dropped.
C19_IgnoreFailsOpen ==
    /\ (sr.op = "list_directory" /\ sr.res.kind = "Ok" /\ IsDir(fs, sr.res.path)
           /\ sr.res.path \notin sr.unreadable) =>
          /\ sr.response = "ok"
          /\ ListedNames = SelectSeq(sr.names,
                                     LAMBDA n : CharsOf(n) \notin Dropped(ListRespected /\ GitAnswered, sr.names))
    /\ (SearchDone /\ sr.res.kind = "Ok") =>
          /\ sr.response = "ok"
          /\ ~GitAnswered => SearchReturns(FALSE)
          /\ GitAnswered => SearchReturns(GitRespected)

\* A search that respects gitignore returned files although the git task failed.
C19_Witness ==
    /\ SearchAnswered /\ GitRespected
    /\ sr.git.kind = "join error"
    /\ \E i \in 1..Len(sr.reads) : sr.reads[i].ok /\ sr.reads[i].ignored = {}
    /\ sr.count > 1

\* The file n of a directory the search read is one the search looks for.
Wanted(read, n) ==
    /\ IsFile(fs, Append(read.dir, n))
    /\ Eligible(n, read.ignored)
    /\ EmptyQuery \/ ScoreOf(FileSearchHit(Append(read.dir, n),
                                            Display(SubSeq(Append(read.dir, n), Len(sr.res.path) + 1,
                                                           Len(read.dir) + 1)))).ok

\* C20: once the root is resolved search_files does not fail; a directory
\* that cannot be opened is skipped, and the response has the hits of every
\* other directory that was read (all of them when the limit is not reached).
C20_UnreadableDirsSkipped ==
    (sr.op = "search_files" /\ sr.res.kind = "Ok") =>
        /\ sr.response \in {"pending", "ok"}
        /\ SearchDone => sr.response = "ok"
        /\ \A i \in 1..Len(sr.reads) :
               ~sr.reads[i].ok <=> (sr.reads[i].dir \in sr.unreadable \/ ~IsDir(fs, sr.reads[i].dir))
        /\ (SearchDone /\ sr.count < ClaimedLimit) =>
               \A i \in 1..Len(sr.reads) :
                   sr.reads[i].ok =>
                       \A n \in {sr.order[m] : m \in 1..Len(sr.order)} :
                           (Exists(fs, Append(sr.reads[i].dir, n)) /\ Wanted(sr.reads[i], n)) =>
                               \E k \in 1..Len(sr.files) : sr.files[k].path = Append(sr.reads[i].dir, n)

\* A search could not open a directory beneath its root and returned the
\* files of the root.
C20_Witness ==
    /\ SearchAnswered
    /\ \E i \in 1..Len(sr.reads) : ~sr.reads[i].ok /\ sr.reads[i].dir # sr.res.path
    /\ sr.count > 0 /\ sr.count < ClaimedLimit

\* The search of the call has resolved its root.
SearchRooted == sr.op = "search_files" /\ sr.res.kind = "Ok"

\* C22: within one search no directory is read twice: every directory that
\* is or was in the queue is in visited under its canonical path, the queue
\* holds no directory twice and none that was read, also in a tree whose
\* links form a cycle.
C22_NoDirectoryReadTwice ==
    SearchRooted =>
        /\ \A i, j \in 1..Len(sr.reads) : i # j => sr.reads[i].dir # sr.reads[j].dir
        /\ \A i, j \in 1..Len(sr.queue) : i # j => sr.queue[i] # sr.queue[j]
        /\ \A i \in 1..Len(sr.queue) :
               /\ sr.queue[i] \in sr.visited
               /\ \A j \in 1..Len(sr.reads) : sr.reads[j].dir # sr.queue[i]
        /\ \A i \in 1..Len(sr.reads) : sr.reads[i].dir \in sr.visited
        /\ \A p \in sr.visited : IsCanonicalIn(fs, p)

\* A search read the directory that holds a link back to the root and ended.
C22_Witness ==
    /\ SearchAnswered
    /\ IsLink(fs, <<"w", "a", "a", "l">>)
    /\ sr.res.path = <<"w">>
    /\ \E i \in 1..Len(sr.reads) : sr.reads[i].dir = <<"w", "a", "a">> /\ sr.reads[i].ok

\* The collect limit of the call, as claimed.
ClaimedCollectLimit ==
    IF EmptyQuery THEN ClaimedLimit ELSE Max(3 * ClaimedLimit, 200)

CollectLimitReached == SearchRooted /\ Len(sr.candidates) >= ClaimedCollectLimit

\* With the collect limit reached a step adds no directory to the queue, and
\* at the start of a round it reads none.
NoFurtherExpansion ==
    CollectLimitReached =>
        /\ \A i \in 1..Len(sr'.queue) : \E j \in 1..Len(sr.queue) : sr.queue[j] = sr'.queue[i]
        /\ Len(sr'.queue) <= Len(sr.queue)
        /\ sr.slot = 0 => sr'.reads = sr.reads

\* A read is the next of at most five of its round.
RoundOfFive ==
    (SearchRooted /\ sr'.reads # sr.reads) =>
        /\ Len(sr'.reads) = Len(sr.reads) + 1
        /\ sr.slot \in 0..4
        /\ sr'.slot = (sr.slot + 1) % 5

\* C25: throughout a search the candidates number at most the collect limit
\* plus 4; once the collect limit is reached no round starts and no directory
\* is queued; and a round takes at most 5 directories from the queue.
C25_OvershootBounded ==
    /\ [](SearchRooted => Len(sr.candidates) <= ClaimedCollectLimit + 4 /\ sr.slot \in 0..4)
    /\ [][NoFurtherExpansion /\ RoundOfFive]_vars

\* A search holds its collect limit and four candidates more.
C25_Witness ==
    /\ SearchRooted
    /\ Len(sr.candidates) = ClaimedCollectLimit + 4
    /\ sr.phase = "loop"

\* The hit of a file of the tree.
HitOf(p) == FileSearchHit(p, relative_path(sr.res.path, p))

EligibleFiles == Traversal(GitRespected /\ GitAnswered, <<sr.res.path>>)

\* Those of the eligible files that match the query.
MatchingOf(eligible) ==
    {p \in {eligible[i] : i \in 1..Len(eligible)} : EmptyQuery \/ ScoreOf(HitOf(p)).ok}

Matching == MatchingOf(EligibleFiles)

\* No read of a directory fails.
NothingFails == SearchAnswered /\ sr.unreadable = {} /\ IsDir(fs, sr.res.path)

\* The files are the top `limit` of the matching files: in the order of C11
\* for a query, in the order of the traversal for the empty query.
TopOf(eligible, matching) ==
    /\ Len(sr.files) = Min(ClaimedLimit, Cardinality(matching))
    /\ \A i \in 1..Len(sr.files) :
           sr.files[i].path \in matching /\ sr.files[i] = HitOf(sr.files[i].path)
    /\ \A i, j \in 1..Len(sr.files) : i < j => sr.files[i] # sr.files[j]
    /\ EmptyQuery =>
           [i \in 1..Len(sr.files) |-> sr.files[i].path] = FirstOfTraversal(eligible, ClaimedLimit)
    /\ ~EmptyQuery =>
           /\ \A i, j \in 1..Len(sr.files) : i < j => ClaimedBefore(sr.files[i], sr.files[j])
           /\ \A p \in matching :
                  ~Returned(HitOf(p)) =>
                      \A i \in 1..Len(sr.files) : ClaimedBefore(sr.files[i], HitOf(p))

WithinCollectLimit(eligible, matching) ==
    Cardinality(matching) <= ClaimedCollectLimit => TopOf(eligible, matching)

NothingMissedOf(eligible) == WithinCollectLimit(eligible, MatchingOf(eligible))

\* C27: when no read fails and the eligible matching files are at most the
\* collect limit, the files are the top `limit` of all eligible matching
\* files of the tree in ranking order.
C27_NothingMissed == NothingFails => NothingMissedOf(EligibleFiles)

\* A query matched more files in a nested tree than the limit, and the two
\* best were returned.
C27_Witness ==
    /\ NothingFails /\ ~EmptyQuery
    /\ Cardinality(Matching) > 3
    /\ Cardinality(Matching) <= ClaimedCollectLimit
    /\ sr.count = 2
    /\ \E p \in Matching : Len(p) > Len(sr.res.path) + 2

\* The path of a hit is a regular file strictly beneath the root, reached
\* through directories only.
HitBeneathRoot(hit) ==
    /\ IsFile(fs, hit.path)
    /\ IsPrefix(sr.res.path, hit.path)
    /\ Len(hit.path) > Len(sr.res.path)
    /\ \A k \in (Len(sr.res.path) + 1)..(Len(hit.path) - 1) : IsDir(fs, SubSeq(hit.path, 1, k))

\* The relative path of a hit is its path without the root, and is no
\* absolute path.
HitRelativeToRoot(hit) ==
    /\ hit.relative_path = Display(SubSeq(hit.path, Len(sr.res.path) + 1, Len(hit.path)))
    /\ hit.relative_path # <<>>
    /\ hit.relative_path[1] # "/"

\* C29: every hit is a regular file strictly beneath the resolved root, its
\* relative path is its path with the root removed and is never absolute,
\* and no link is returned or followed.
C29_HitsBeneathRoot ==
    SearchRooted =>
        /\ \A i \in 1..Len(sr.files) : HitBeneathRoot(sr.files[i]) /\ HitRelativeToRoot(sr.files[i])
        /\ \A i \in 1..Len(sr.reads) : sr.reads[i].ok => IsDir(fs, sr.reads[i].dir)

ListAnswered == sr.op = "list_directory" /\ sr.response = "ok"

\* An entry has a size only when it is a regular file.
SizeOnlyOfFiles(e) ==
    /\ e.size.ok => e.is_file
    /\ (e.is_directory \/ e.is_symbolic_link) => ~e.size.ok

\* An entry is not both a directory and a file, and a link to a directory is
\* a symbolic link and a directory.
KindsOfEntry(e) ==
    /\ ~(e.is_directory /\ e.is_file)
    /\ e.is_symbolic_link = IsLink(fs, e.path)
    /\ (IsLink(fs, e.path) /\ is_dir(fs, e.path)) => (e.is_symbolic_link /\ e.is_directory)

\* C24: in every entry of a listing the size is present only for a regular
\* file, directories and symbolic links have no size, isDirectory and isFile
\* are never both true, and a link to a directory is a symbolic link and a
\* directory.
C24_EntryFields ==
    ListAnswered =>
        \A i \in 1..Len(sr.entries) : SizeOnlyOfFiles(sr.entries[i]) /\ KindsOfEntry(sr.entries[i])

\* C26: a search terminates on every finite tree, with links that form a
\* cycle and with more matching files than the collect limit: the queue
\* empties or the collect limit is reached, and the response is produced.
C26_SearchTerminates ==
    SearchRooted ~> (SearchAnswered /\ (sr.queue = <<>> \/ Len(sr.candidates) >= ClaimedCollectLimit))

\* A search of the tree with a cycle reached its collect limit and ended.
C26_Witness ==
    /\ SearchAnswered
    /\ IsLink(fs, <<"w", "a", "a", "l">>)
    /\ Len(sr.candidates) >= ClaimedCollectLimit
    /\ \E i \in 1..Len(sr.reads) : sr.reads[i].dir = <<"w", "a">>

\* Two filesystems hold the same nodes at and beneath every root.
SameInside(f, g, workspace_roots) ==
    \A p \in DOMAIN f \cup DOMAIN g :
        InSomeRoot(p, workspace_roots) => (Exists(f, p) /\ Exists(g, p) /\ f[p] = g[p])

\* The filesystems that differ from the one of the call outside the roots only.
SameInsideAs(f, workspace_roots) == {g \in InitFilesystems : SameInside(f, g, workspace_roots)}

\* C28: with non-empty roots the answer of delete_path to a path depends
\* only on what the filesystem holds inside the roots: on a filesystem that
\* differs outside the roots only, the path resolves to the same result and
\* the same message.
C28_OutsideUnobservable ==
    (pc = "done" /\ call.op = "delete_path" /\ call.roots # <<>> /\ call.res # NoResult) =>
        \A g \in SameInsideAs(call.pre, call.roots) :
            /\ resolve_sandboxed_path(g, call.path, call.roots, call.default_root) = call.res
            /\ to_delete_message(resolve_sandboxed_path(g, call.path, call.roots,
                                                        call.default_root).kind)
                   = to_delete_message(call.res.kind)

\* The roots are returned, not empty, with a default root.
RootsWithDefault ==
    /\ sr.op = "resolve_workspace_roots"
    /\ pc \in {"rooted", "done"}
    /\ sr.ws.roots # <<>>
    /\ sr.ws.default_root.ok

\* C30: in every settings state, and with a settings save at any point of
\* resolve_workspace_roots, a returned default root beside a non-empty root
\* list is one of the roots, the list has no duplicates, and a request
\* without a path passes the containment check.
C30_DefaultRootAmongRoots ==
    RootsWithDefault =>
        /\ \E i \in 1..Len(sr.ws.roots) : sr.ws.roots[i] = sr.ws.default_root.v
        /\ \A i, j \in 1..Len(sr.ws.roots) : sr.ws.roots[i] = sr.ws.roots[j] => i = j
        /\ pc = "done" => sr.res = Ok(sr.ws.default_root.v)

\* A listing has answered after the resolved directory, or one above it,
\* was replaced by a link that leads outside every root.
ListedAfterReplace ==
    /\ sr.op = "list_directory"
    /\ sr.phase = "done"
    /\ sr.roots # <<>>
    /\ sr.replaced # <<>>

\* C23: when the resolved directory or an ancestor of it is replaced by a
\* link to a place outside every root after resolve_sandboxed_path returned
\* and before the second containment test, list_directory answers with the
\* access-denied error and returns no entry of the outside place.
C23_ReplacedDirectoryRefused ==
    ListedAfterReplace =>
        /\ sr.response = to_list_message("OutsideWorkspace")
        /\ sr.entries = <<>>

\* The invocation run on its own, to its answer.
RECURSIVE RunAlone(_, _)
RunAlone(f, s) == IF Finished(s) THEN s ELSE RunAlone(f, Step(f, s))

\* What an invocation returns.
AnswerOf(s) ==
    IF s.op = "search_files" THEN [response |-> s.response, files |-> s.files, count |-> s.count]
    ELSE IF s.response = "ok" THEN [response |-> s.response, entries |-> s.entries]
    ELSE [response |-> s.response]

====
